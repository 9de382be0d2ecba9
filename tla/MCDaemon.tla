------------------------------- MODULE MCDaemon -------------------------------
(***************************************************************************)
(* The environments in which Daemon is checked.                            *)
(***************************************************************************)
EXTENDS Daemon, TLC

Nothing == [browsers |-> 0, terminals |-> 0, invitations |-> 0, revocations |-> 0,
            failures |-> 0, creates |-> 0, ticks |-> 0, crashes |-> 0,
            attachments |-> 0, ends |-> 0, stops |-> 0]

\* Handshakes with one device, against revocations, failed writes and crashes.
Revoking == [Nothing EXCEPT !.browsers = 3, !.invitations = 1, !.revocations = 2, !.failures = 2,
                            !.crashes = 1]
Aging == [Nothing EXCEPT !.browsers = 3, !.invitations = 1, !.ticks = 2]

\* Two nonces, two devices, a device that changes hands.
Enrolling == [Nothing EXCEPT !.browsers = 3, !.invitations = 2, !.ticks = 1]

\* Sessions made, attached to and killed.
Sessions == [Nothing EXCEPT !.terminals = 2, !.creates = 3, !.ticks = 2,
                            !.attachments = 2, !.ends = 1]
Browsing == [Nothing EXCEPT !.browsers = 2, !.invitations = 1, !.creates = 1,
                            !.terminals = 1, !.attachments = 2, !.revocations = 1]

\* A stop while a session is being made, attached to and ends.
Stopping == [Nothing EXCEPT !.terminals = 1, !.creates = 2, !.attachments = 1,
                            !.ends = 1, !.stops = 1]

BoundsAll == {Stopping, Revoking, Aging, Enrolling, Sessions, Browsing}
BoundsRevoking == {Revoking}

Symmetric == Permutations(Handlers) \cup Permutations(Helpers) \cup
             Permutations(Uids) \cup Permutations(Creds)
=============================================================================
