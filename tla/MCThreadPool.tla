---------------------------- MODULE MCThreadPool ----------------------------
(* Small instances of ThreadPool for TLC. *)
EXTENDS ThreadPool

CONSTANTS c1, c2

TwoClients == {c1, c2}
OneClient == {c1}
AllUses == EntryPoints
QueueUses == {"AddTask", "WaitAllTask"}

=============================================================================
