------------------------------- MODULE QueryCache -------------------------------
(***************************************************************************)
(* The client's query cache (TanStack Query) as the mini app uses it.  The *)
(* server's history is a line of positions, one per committed write; what  *)
(* an answer shows is the position it was read at, anywhere between the    *)
(* request and its answer.  Whether the staleTime of an entry has run out  *)
(* is left open, so an entry needs no age.                                 *)
(***************************************************************************)
EXTENDS Integers

\* No data, or no request in flight.
None == -1

(***************************************************************************)
(* mark tells what is known of the data:                                   *)
(*   "clean"    it landed and nothing has been heard since;                *)
(*   "invalid"  invalidated since it was asked for;                        *)
(*   "raced"    the request in flight was asked before an invalidation     *)
(*              that did not restart it; its answer clears the library's   *)
(*              mark all the same;                                         *)
(*   "failed"   the last request failed.                                   *)
(***************************************************************************)
Mark == {"clean", "invalid", "raced", "failed"}
Entry == [at : Nat \cup {None}, from : Nat \cup {None}, mark : Mark]

Empty == [at |-> None, from |-> None, mark |-> "clean"]

InFlight(e) == e.from # None

\* The library gives no reason to doubt what the entry shows.
IsSettled(e) == e.at # None /\ e.from = None /\ e.mark = "clean"

\* A request leaves the client when the server stands at position now.
Asked(e, now) ==
    [e EXCEPT !.from = now, !.mark = IF @ = "raced" THEN "failed" ELSE @]

(***************************************************************************)
(* A component that uses the entry mounts.  A request in flight is joined; *)
(* an entry without data or invalidated is asked for; any other one only   *)
(* when its staleTime has run out, expired.                                *)
(***************************************************************************)
OnMount(e, now, expired) ==
    IF ~InFlight(e) /\ (e.at = None \/ e.mark = "invalid" \/ expired)
    THEN Asked(e, now)
    ELSE e

\* Mutant: an entry in use is marked and not asked for.
NeverRestarts(e, inUse) == FALSE

\* Invalidation asks for the entry anew, whatever is in flight for it.
Restarts(e, inUse) == inUse /\ (e.at # None \/ ~InFlight(e))

\* Mutant: an entry that no page uses is not marked.
InvalidatedInUse(e, inUse, now) ==
    IF Restarts(e, inUse) THEN [e EXCEPT !.from = now, !.mark = "invalid"] ELSE e

(***************************************************************************)
(* invalidateQueries on a key that covers the entry.  A first load in      *)
(* flight is joined and not restarted, and neither is a request that       *)
(* nobody waits for any more.                                              *)
(***************************************************************************)
Invalidated(e, inUse, now) ==
    IF Restarts(e, inUse)
    THEN [e EXCEPT !.from = now, !.mark = "invalid"]
    ELSE IF e = Empty
         THEN e
         ELSE [e EXCEPT !.mark = IF InFlight(e) THEN "raced" ELSE "invalid"]

\* The answer, read at position pos, lands.
Landed(e, pos) ==
    [at |-> pos, from |-> None,
     mark |-> IF e.mark = "raced" THEN "raced" ELSE "clean"]

\* The request and its one retry have failed; the data is kept.
Failed(e) == [e EXCEPT !.from = None, !.mark = "failed"]

\* At position now: neither what the entry shows without a doubt nor what it
\* waits for is older than pos.
Timely(e, pos, now) ==
    /\ e.at <= now
    /\ IsSettled(e) => e.at >= pos
    /\ InFlight(e) /\ e.mark # "raced" => e.from >= pos
=================================================================================
