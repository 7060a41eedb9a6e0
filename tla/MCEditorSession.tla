-------------------------- MODULE MCEditorSession --------------------------
(***************************************************************************)
(* Instances of EditorSession for TLC.  A cfg gives Scenarios one of the   *)
(* sets below.                                                             *)
(***************************************************************************)
EXTENDS EditorSession

\* Tabs are interchangeable as long as each has its own client id.
Symmetry == Permutations(Tab)

MCClientIds == Tab \cup {System}

Scenario(servers, race, text, counts) ==
    [nodes |-> 1..servers, race |-> race, text |-> text, users |-> Tab,
     edits |-> counts[1], conns |-> counts[2], resends |-> counts[3],
     faults |-> counts[4]]

-----------------------------------------------------------------------------
(* Race-free *)

\* Three concurrent edits.
Editing == Scenario(1, {}, <<>>, <<3, 2, 0, 0>>)

\* Lost proposals, late futures and a restart, with resubmission.
Faults == Scenario(1, {}, <<>>, <<2, 3, 1, 1>>)

\* A change of leader between two servers.
Moving == Scenario(2, {}, <<>>, <<1, 3, 0, 1>>)

\* The initial text, proposed again after a restart.
Booting == Scenario(1, {}, <<90>>, <<1, 2, 0, 1>>)

RaceFree == {Editing, Faults, Moving, Booting}

-----------------------------------------------------------------------------
(* Retries *)

\* Connections break at any moment.
Breaking == Scenario(1, {"reconnect"}, <<>>, <<1, 3, 2, 0>>)

\* Two edits of one user or of two.
Meeting == Scenario(1, {"reconnect"}, <<>>, <<2, 2, 1, 0>>)

\* One user who edits before, while and after an acknowledgement is lost.
Repeating ==
    [Scenario(1, {"reconnect"}, <<>>, <<3, 2, 2, 0>>)
        EXCEPT !.users = {CHOOSE t \in Tab : TRUE}]

\* Separate reads, callbacks that run late.
Overlapping ==
    Scenario(1, {"callback", "snapshot", "reconnect", "lag"}, <<>>,
             <<1, 2, 1, 0>>)

\* The leader changes while clients are connected.
Redirecting == Scenario(2, {"reconnect"}, <<>>, <<1, 1, 2, 1>>)

\* A proposal or its future is lost between two edits.
Losing == Scenario(1, {}, <<>>, <<2, 2, 1, 1>>)

Retrying == {Breaking, Meeting, Repeating, Overlapping, Redirecting, Losing}

-----------------------------------------------------------------------------
(* One race each *)

RaceRepeating == {Repeating}
RaceCallback  == {Scenario(1, {"callback"}, <<>>, <<2, 2, 0, 0>>)}
RaceSnapshot  == {Scenario(1, {"snapshot"}, <<>>, <<2, 2, 0, 0>>)}
RaceResend    == {Scenario(1, {"resend"}, <<>>, <<2, 2, 1, 0>>)}
RaceReconnect == {Scenario(1, {"reconnect"}, <<>>, <<2, 3, 1, 0>>)}
RaceLag       == {Scenario(1, {"lag"}, <<>>, <<2, 3, 0, 1>>)}
RaceExit      == {Scenario(1, {"exit"}, <<>>, <<2, 3, 0, 0>>)}
RaceTabs      == {Scenario(1, {"tabs"}, <<>>, <<2, 2, 0, 0>>)}
=============================================================================
