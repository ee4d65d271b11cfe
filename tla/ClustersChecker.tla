--------------------------- MODULE ClustersChecker ---------------------------
(***************************************************************************)
(* tools/clusters-checker: compares an index of two clusters.  With        *)
(* timestamps, NumParallelReads checkers each read an interval of both     *)
(* clusters in pages, page by page side by side; a document that is not in *)
(* the page of the other side is kept until the two meet.  Without         *)
(* timestamps, one checker reads the source and asks the destination for   *)
(* the documents of each page.                                             *)
(***************************************************************************)
EXTENDS IndexModifier

CONSTANTS
  BlockchainStartTime,     \* cfg.Compare.BlockchainStartTime
  Now,                     \* time.Now() when the checkers are created
  MaxParallelReads,        \* bound on cfg.Compare.NumParallelReads
  CheckAccumulateInterval  \* checkAccumulateInterval

ASSUME CheckerAssumption ==
  /\ BlockchainStartTime \in Nat /\ Now \in Nat /\ BlockchainStartTime <= Now
  /\ MaxParallelReads \in Nat
  /\ CheckAccumulateInterval \in Nat \ {0}

Modes == {"withTimestamp", "noTimestamp", "counts"}

VARIABLES
  mode,              \* the flag the tool was started with, if it was
  onlyIDs,           \* the flag check-only-ids
  numParallelReads,  \* cfg.Compare.NumParallelReads
  checker,           \* checker[k]: state of the checker of interval k
  report             \* the differences that were logged

options == <<mode, onlyIDs, numParallelReads>>
checkerVars == <<options, checker, report>>

\* Mutant: the last interval ends at a step, not at the end.
intervalsByStep(start, end, n) ==
  IF n < 2 THEN [k \in {1} |-> [start |-> start, stop |-> end]]
  ELSE [k \in 1..n |-> [start |-> start + (k - 1) * ((end - start) \div n),
                        stop  |-> start + k * ((end - start) \div n)]]

computeIntervals(start, end, n) ==
  IF n < 2 THEN [k \in {1} |-> [start |-> start, stop |-> end]]
  ELSE [k \in 1..n |-> [start |-> start + (k - 1) * ((end - start) \div n),
                        stop  |-> IF k = n THEN end ELSE start + k * ((end - start) \div n)]]

\* The instances that compare something.
Instances == IF mode = "withTimestamp" THEN 1..numParallelReads ELSE {1}

\* getAllSortTimestampASC: a range with both of its ends.
InInterval(k) ==
  LET interval == computeIntervals(BlockchainStartTime, Now, numParallelReads)[k]
  IN  {id \in Ids : interval.start <= Timestamp[id] /\ Timestamp[id] <= interval.stop}

other(side) == IF side = "source" THEN "destination" ELSE "source"

Checkers == [pc : {"source", "destination", "read", "done", "failed"},
             scroll : [Sides -> Scrolls],
             page : [Sides -> SUBSET Ids],     \* the answers of this round
             answered : SUBSET Sides,          \* the requests of this round that ended
             missing : [Sides -> SUBSET Ids],  \* missingFromSource, missingFromDestination
             count : 0..CheckAccumulateInterval - 1]  \* rounds, modulo the interval

NewChecker == [pc |-> "source", scroll |-> [s \in Sides |-> NoScroll],
               page |-> [s \in Sides |-> {}], answered |-> {},
               missing |-> [s \in Sides |-> {}], count |-> 0]

CheckerInit ==
  /\ mode = "not started"
  /\ onlyIDs = FALSE
  /\ numParallelReads = 0
  /\ checker = [k \in 1..MaxParallelReads |-> NewChecker]
  /\ report = {}

\* checkClusters: the flags are read; check-counts goes before the others.
\* check-only-ids and NumParallelReads play a part with timestamps only.
ReadFlags ==
  /\ mode' \in Modes
  /\ onlyIDs' \in (IF mode' = "withTimestamp" THEN BOOLEAN ELSE {FALSE})
  /\ numParallelReads' \in (IF mode' = "withTimestamp" THEN 0..MaxParallelReads ELSE {1})
  /\ UNCHANGED <<checker, report>>
-----------------------------------------------------------------------------
areEqualJSON(id) == cluster["source"][id] = cluster["destination"][id]

Different(ids) ==
  {[kind |-> "different", id |-> id] : id \in {i \in ids : ~onlyIDs /\ ~areEqualJSON(i)}}
NotFound(side, ids) == {[kind |-> "not found", side |-> side, id |-> id] : id \in ids}

\* c after the two pages were compared: missing[s] has what only s returned.
compareResults(c, page) ==
  [c EXCEPT !.missing = [s \in Sides |-> @[s] \cup (page[s] \ page[other(s)])],
            !.page = [s \in Sides |-> {}], !.answered = {}]

InBothPages(page) == page["source"] \cap page["destination"]

\* c after documents that are in both maps were taken out of them.
checkMaps(c, finish) ==
  [c EXCEPT !.missing = [s \in Sides |-> IF finish THEN {} ELSE @[s] \ @[other(s)]]]

\* What checkMaps logs.
ReportMaps(c, finish) ==
  LET both == c.missing["source"] \cap c.missing["destination"]
  IN  Different(both) \cup
      (IF finish THEN UNION {NotFound(other(s), c.missing[s] \ both) : s \in Sides} ELSE {})
-----------------------------------------------------------------------------
\* A search: the first page and the scroll for the rest.  When there are no
\* hits the scroll is cleared, but its id is returned all the same.
InitializeScroll(k, side) ==
  LET c == checker[k] IN
  /\ c.pc = side
  /\ \/ /\ \E q \in SortedByTimestamp(Present(cluster[side]) \cap InInterval(k)) :
             LET read == [c EXCEPT !.page[side] = PageIds(q), !.scroll[side] =
                            [rest |-> Rest(q), open |-> q # <<>>, held |-> TRUE, done |-> q = <<>>]]
                 page == read.page
                 isDone == \A s \in Sides : read.scroll[s].done
                 first == [compareResults(read, page) EXCEPT
                             !.pc = IF isDone THEN "done" ELSE "read",
                             \* continueReading has its own doneSource, doneDestination
                             !.scroll = [s \in Sides |-> [@[s] EXCEPT !.done = isDone]]]
             IN  IF side = "source"
                   THEN /\ checker' = [checker EXCEPT ![k] = [read EXCEPT !.pc = "destination"]]
                        /\ UNCHANGED report
                   ELSE /\ checker' = [checker EXCEPT ![k] = first]
                        /\ report' = report \cup Different(InBothPages(page))
        /\ UNCHANGED failures
     \/ /\ failures < MaxFailures
        /\ failures' = failures + 1
        /\ checker' = [checker EXCEPT ![k].pc = "failed"]
        /\ UNCHANGED report
  /\ UNCHANGED options

\* The scroll after DoScrollRequestV2: an answer with no hits ends and clears it,
\* after an error its id is lost and the next request is sent without one.
Scrolled(scroll) ==
  IF scroll.rest = <<>> THEN [scroll EXCEPT !.open = FALSE, !.held = FALSE, !.done = TRUE]
                        ELSE [scroll EXCEPT !.rest = Rest(@)]

\* Mutant: a side that is done is read again.
scrollAgain(k, side) ==
  LET c == checker[k]
      scroll == c.scroll[side]
      ok == scroll.held /\ scroll.open
  IN
  /\ c.pc = "read" /\ side \notin c.answered
  /\ checker' = [checker EXCEPT ![k] = [c EXCEPT
       !.answered = @ \cup {side},
       !.page[side] = IF ok THEN PageIds(scroll.rest) ELSE {},
       !.scroll[side] = IF ok THEN Scrolled(@) ELSE [@ EXCEPT !.done = FALSE]]]
  /\ UNCHANGED <<options, report, failures>>

\* One of the two goroutines of a round of continueReading.
DoScrollRequestV2(k, side) ==
  LET c == checker[k]
      scroll == c.scroll[side]
  IN
  /\ c.pc = "read" /\ side \notin c.answered
  /\ \/ /\ scroll.done
        /\ checker' = [checker EXCEPT ![k].answered = @ \cup {side}]
        /\ UNCHANGED failures
     \/ /\ ~scroll.done /\ scroll.held /\ scroll.open
        /\ checker' = [checker EXCEPT ![k] = [c EXCEPT !.answered = @ \cup {side},
             !.page[side] = PageIds(scroll.rest), !.scroll[side] = Scrolled(@)]]
        /\ UNCHANGED failures
     \/ /\ ~scroll.done
        /\ \/ ~(scroll.held /\ scroll.open) /\ UNCHANGED failures
           \/ /\ scroll.held /\ scroll.open
              /\ failures < MaxFailures
              /\ failures' = failures + 1
        /\ checker' = [checker EXCEPT ![k] = [c EXCEPT !.answered = @ \cup {side},
             !.scroll[side].held = FALSE]]
  /\ UNCHANGED <<options, report>>

\* Both goroutines of the round have answered.
continueReading(k) ==
  LET c == checker[k]
      round == (c.count + 1) % CheckAccumulateInterval
      compared == [compareResults(c, c.page) EXCEPT !.count = round]
      isDone == \A s \in Sides : c.scroll[s].done
      checked == IF round = 0 THEN checkMaps(compared, FALSE) ELSE compared
  IN
  /\ c.pc = "read" /\ c.answered = Sides
  /\ checker' = [checker EXCEPT ![k] =
       IF isDone THEN [checkMaps(checked, TRUE) EXCEPT !.pc = "done"] ELSE checked]
  /\ report' = report \cup Different(InBothPages(c.page))
                      \cup (IF round = 0 THEN ReportMaps(compared, FALSE) ELSE {})
                      \cup (IF isDone THEN ReportMaps(checked, TRUE) ELSE {})
  /\ UNCHANGED <<options, failures>>

CompareIndicesWithTimestamp(k) ==
  /\ mode = "withTimestamp"
  /\ \/ \E side \in Sides : InitializeScroll(k, side) \/ DoScrollRequestV2(k, side)
     \/ continueReading(k)
-----------------------------------------------------------------------------
\* The documents of the page that the destination lacks or has differently;
\* what only the destination has is not looked for.
processResponse(page) ==
  LET found == page \cap Present(cluster["destination"])
  IN  NotFound("destination", page \ found)
      \cup {[kind |-> "different", id |-> id] : id \in {i \in found : ~areEqualJSON(i)}}

CheckFails(k) ==
  /\ failures < MaxFailures
  /\ failures' = failures + 1
  /\ checker' = [checker EXCEPT ![k].pc = "failed"]
  /\ UNCHANGED report

\* A page of the source and the request for its documents at the destination.
CompareIndicesNoTimestamp(k) ==
  LET c == checker[k] IN
  /\ mode = "noTimestamp"
  /\ \/ /\ c.pc = "source"
        /\ \E q \in Unsorted(Present(cluster["source"])) :
             checker' = [checker EXCEPT ![k] = [c EXCEPT !.pc = "read", !.page["source"] = PageIds(q),
               !.scroll["source"] = [rest |-> Rest(q), open |-> TRUE, held |-> TRUE, done |-> FALSE]]]
        /\ UNCHANGED <<report, failures>>
     \/ /\ c.pc = "read"
        /\ report' = report \cup processResponse(c.page["source"])
        /\ checker' = [checker EXCEPT ![k] =
             IF c.scroll["source"].rest = <<>>
               THEN [c EXCEPT !.pc = "done", !.page["source"] = {}, !.scroll["source"] = NoScroll]
               ELSE [c EXCEPT !.page["source"] = PageIds(c.scroll["source"].rest),
                              !.scroll["source"].rest = Rest(@)]]
        /\ UNCHANGED failures
     \/ c.pc \in {"source", "read"} /\ CheckFails(k)
  /\ UNCHANGED options

\* Two count requests; the difference is logged with the side that has more.
CompareCounts(k) ==
  LET number(side) == Cardinality(Present(cluster[side]))
      more(side) == number(side) > number(other(side))
  IN
  /\ mode = "counts"
  /\ checker[k].pc = "source"
  /\ \/ /\ report' = {[kind |-> "more", side |-> s] : s \in {x \in Sides : more(x)}}
        /\ checker' = [checker EXCEPT ![k].pc = "done"]
        /\ UNCHANGED failures
     \/ CheckFails(k)
  /\ UNCHANGED options

checkClusters(k) ==
  /\ k \in Instances
  /\ CompareIndicesWithTimestamp(k) \/ CompareIndicesNoTimestamp(k) \/ CompareCounts(k)
=============================================================================
