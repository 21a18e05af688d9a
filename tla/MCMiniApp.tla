------------------------------- MODULE MCMiniApp -------------------------------
(* The mini app with its own pages and queries; only the bounds are chosen. *)
EXTENDS MiniAppInvariant

MCProbes == {useMyWorkingHours}

\* No pair is excepted that a prefix covers.
ASSUME LeftBehindIsNeeded ==
    \A p \in PageName : \A n \in DOMAIN PageOf[p].saves : \A q \in AllQueries :
        LET m == PageOf[p].saves[n].by IN
        <<m, q>> \in LeftBehind => ~Covers(m, q)
================================================================================
