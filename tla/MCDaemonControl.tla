-------------------------- MODULE MCDaemonControl ---------------------------
(***************************************************************************)
(* The instance of DaemonControl for TLC: a sid whose directory has        *)
(* another name, and one whose directory has the same.  The daemons of "a" *)
(* get one of two pairs of addresses, the one of "b:1" an address of each. *)
(***************************************************************************)
EXTENDS DaemonControl, TLC

At(h, u) == [http |-> h, udp |-> u]

MCSid == {"a", "b:1"}
MCListen == "a" :> {At("h1", "u1"), At("h2", "u2")} @@ "b:1" :> {At("h2", "u1")}

MCSanitized == "a" :> "a" @@ "b:1" :> "b_1" @@ "b_1" :> "b_1" @@ "garbled" :> "garbled"

\* Pids are interchangeable: it is enough to follow the behaviours in which
\* one of them, always the same, is given away first.
FirstPid == starts = 1 => \A i \in Pid \ {CHOOSE j \in Pid : TRUE} : ~Exists(i)
=============================================================================
