---------------------------- MODULE MiniAppInvariant ----------------------------
(***************************************************************************)
(* Why the mini app keeps its promises: the inductive invariant of         *)
(* MiniApp, part by part.  What it needs of the tables in Endpoints,       *)
(* Queries and Pages is TablesAssumption, a statement without variables.   *)
(***************************************************************************)
EXTENDS MiniApp

ASSUME TablesAssumption ==
    /\ "home" \in PageName
    /\ \A p \in PageName : \A n \in DOMAIN PageOf[p].saves :
          LET button == PageOf[p].saves[n] IN
          /\ n # "none" /\ button.next \in PageName \cup {Stay}
          \* every hook reaches what it changes, or is known not to
          /\ \A q \in AllQueries : Concerns(button.by, q) =>
                Covers(button.by, q) \/ <<button.by, q>> \in LeftBehind
          \* a form is there when it has been shown what it replaces
          /\ \A q \in PageOf[p].draft.of : Concerns(button.by, q) =>
                \A table \in button.replaces :
                    \/ table \in q.reads /\ q \in PageOf[p].needs \cup button.rows
                    \/ <<p, table>> \in KnownWipes

\* No profile is missing without a mishap: a run has a bearer to load it with,
\* and what refuses it is a lapse, an old token or a loss.
FailuresExplained ==
    /\ lapsed \/ device.oldExpired => mishaps > 0
    /\ \A r \in Run :
         /\ runs[r].phase = "saving" => auth.bearer # "none"
         /\ runs[r].phase = "profiling" =>
               \/ calls[r].bearer # "none" /\ calls[r].phase # "failed"
               \/ mishaps > 0
    /\ auth.staffMe = "unlinked" => device.role # "staff" \/ mishaps > 0

\* The entry is timely, and has not been asked for in the future.
EntryTimely == Timely(entry, acked, now) /\ entry.from <= now

\* A form has what its query has had; one that starts over has what it has now.
FormFollows ==
    (mounted /\ subject \in PageOf[page].draft.of) =>
        /\ entry.at # None => draft # None
        /\ PageOf[page].draft.each => draft = entry.at

SaveName == {"none"} \cup UNION {DOMAIN PageOf[p].saves : p \in PageName}
SaveRecord == [page : PageName, name : SaveName, base : Nat \cup {None}, ran : Nat, pos : Nat]

\* A save has been pressed on a page that has it, with the form filled where
\* the page waits for that; as long as its request may still be sent it has not
\* been executed, and of the positions that the events allow one is left for it.
SaveFollowed ==
    /\ save \in SaveRecord
    /\ save.ran <= 1 /\ save.pos <= now
    /\ calls["save"].phase \in {"sent", "renewing", "storing"} => save.ran = 0 /\ now < events
    /\ save # NoSave =>
          /\ save.page \in PageName /\ save.name \in SavesOf(save.page)
          /\ subject \in PageOf[save.page].draft.of /\ Saved.replaces # {}
                /\ subject \in PageOf[save.page].needs \cup Saved.rows
             => save.base # None

\* Together: inductive, and what the properties follow from.
IndInv ==
    /\ TypeOK
    /\ FailuresExplained
    /\ EntryTimely
    /\ FormFollows
    /\ SaveFollowed
=================================================================================
