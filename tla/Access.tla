-------------------------------- MODULE Access --------------------------------
(***************************************************************************)
(* Who may act as whom: what the browser authentication of the daemon      *)
(* promises, without its steps, its locks and its file.                    *)
(*                                                                         *)
(* A grant is a session token or an enrolled device, and belongs to a      *)
(* user.  Whoever shows a grant that is usable, or an invitation that has  *)
(* not been spent, has proven to be its user, and only then gets grants.   *)
(***************************************************************************)
CONSTANTS Handlers, None

VARIABLES usable,       \* the grants that are accepted
          doubtful,     \* withdrawn, but a crash may bring them back
          invited,      \* invitations (enrolment nonces), each with its user
          proven        \* the user a handler has proven to act for, or None

vars == <<usable, doubtful, invited, proven>>

Init ==
    /\ usable = {} /\ doubtful = {} /\ invited = {}
    /\ proven = [h \in Handlers |-> None]

\* A handler shows a grant, or spends an invitation: exactly once.
Use(h) ==
    /\ proven[h] = None
    /\ \E g \in usable : proven' = [proven EXCEPT ![h] = g.uid]
    /\ UNCHANGED <<usable, doubtful, invited>>

Spend(h) ==
    /\ proven[h] = None
    /\ \E i \in invited : /\ proven' = [proven EXCEPT ![h] = i.uid]
                          /\ invited' = invited \ {i}
    /\ UNCHANGED <<usable, doubtful>>

\* A handler's work may end with any of its steps.
Goes(h) == proven' \in {proven, [proven EXCEPT ![h] = None]}

\* A proven handler gets one grant for its user; a device that was another
\* user's is that user's no more.  Nothing else becomes usable.
Gain(h) ==
    /\ \E g \in usable' :
           /\ g.uid = proven[h] /\ proven[h] # None
           /\ usable' \ {g} = {x \in usable \ {g} : x.kind # g.kind \/ x.id # g.id}
    /\ doubtful' \subseteq doubtful \cup usable
    /\ Goes(h) /\ UNCHANGED invited

\* A handler drops the grant it rotates, or only saves.
Drop(h) ==
    /\ usable' \subseteq usable
    /\ \A g \in usable \ usable' : g.uid = proven[h]
    /\ doubtful' \subseteq doubtful \cup usable
    /\ Goes(h) /\ UNCHANGED invited

\* The user withdraws grants; where that is reported to have worked nothing is
\* in doubt any more.
Withdraw ==
    /\ usable' \subseteq usable
    /\ doubtful' \subseteq doubtful \cup usable
    /\ UNCHANGED <<invited, proven>>

\* A user is invited; invitations lapse.
Invite ==
    /\ \E i \in invited' : invited' \subseteq invited \cup {i}
    /\ UNCHANGED <<usable, doubtful, proven>>

Lapse ==
    /\ invited' \subseteq invited
    /\ UNCHANGED <<usable, doubtful, proven>>

Leave(h) ==
    /\ proven' = [proven EXCEPT ![h] = None]
    /\ UNCHANGED <<usable, doubtful, invited>>

\* Invitations and handlers do not survive; grants in doubt may be back.
Crash ==
    /\ usable' \subseteq usable \cup doubtful
    /\ doubtful' = {} /\ invited' = {}
    /\ proven' = [h \in Handlers |-> None]

Next ==
    \/ \E h \in Handlers : Use(h) \/ Spend(h) \/ Gain(h) \/ Drop(h) \/ Leave(h)
    \/ Withdraw \/ Invite \/ Lapse \/ Crash

Spec == Init /\ [][Next]_vars
=============================================================================
