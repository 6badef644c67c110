------------------------------- MODULE MCPsci -------------------------------
(***************************************************************************)
(* Small instances of Psci for TLC.                                        *)
(***************************************************************************)
EXTENDS PsciInv, TLC

\* Two clusters below the root 0: cluster 1 with CPUs 0 and 1, cluster 2 with
\* CPU 2.
Nodes21 == {0, 1, 2}
Ancestor21 == (0 :> <<1, 0>>) @@ (1 :> <<1, 0>>) @@ (2 :> <<2, 0>>)

\* Two clusters of one CPU each.
Ancestor11 == (0 :> <<1, 0>>) @@ (1 :> <<2, 0>>)

Composite(a, b, d) == (0 :> a) @@ (1 :> b) @@ (2 :> d)
Request(s, last) ==
  [states |-> s, last |-> last, power_down |-> s[0] = OFF]

\* With OFF = 2: standby, cluster retention, core, cluster and system off.
PcRequests == {Request(Composite(1, 0, 0), 0), Request(Composite(1, 1, 0), 0),
               Request(Composite(2, 0, 0), 0), Request(Composite(2, 2, 0), 0),
               Request(Composite(2, 2, 2), 0)}

\* The same with the level the caller claims to be the last one awake in.
OsiRequests == {Request(Composite(2, 0, 0), 0), Request(Composite(2, 0, 0), 1),
                Request(Composite(1, 1, 0), 1), Request(Composite(2, 2, 0), 1),
                Request(Composite(2, 2, 2), 2)}

AllRequests == PcRequests \cup OsiRequests

\* A core that leaves first and one that takes the whole system down.
FirstAndLast == {Request(Composite(2, 0, 0), 0), Request(Composite(2, 2, 2), 2)}
=============================================================================
