-------------------------- MODULE ExclusiveBridge --------------------------
(***************************************************************************)
(* What a TCP bridge server promises to the code that starts and stops it  *)
(* and to its clients, with nothing of how it does it:                     *)
(*   - the hardware is held from a successful open until stop() ends or    *)
(*     start() fails, never beyond;                                        *)
(*   - while the server runs, one client at a time is served;              *)
(*   - nobody starts to use hardware that is not held;                     *)
(*   - a client that is no longer served may leave one call into the       *)
(*     hardware behind, which ends beside the next client's: a read        *)
(*     always, whose data nobody gets, but a write, while the server runs, *)
(*     only if the client's connection is lost or the hardware has failed. *)
(* SerialServer and CanServer implement it (see SerialServerProofs and     *)
(* CanServerProofs).                                                       *)
(***************************************************************************)
CONSTANTS Clients        \* the TCP connections

VARIABLES life,          \* where start() and stop() are
          held,          \* the hardware is open
          broken,        \* the hardware has failed
          gone,          \* the clients whose connection is lost
          users,         \* the clients whose traffic is being moved
          reads,         \* clients that have left a read of the hardware behind
          writes         \* clients that have left a write behind

server == <<life, held>>
world  == <<broken, gone>>
left   == <<reads, writes>>
vars   == <<life, held, broken, gone, users, reads, writes>>

Init == /\ life = "new"
        /\ held = FALSE
        /\ broken = FALSE
        /\ gone = {}
        /\ users = {}
        /\ reads = {}
        /\ writes = {}

Open == /\ life = "new"
        /\ life' = "starting" /\ held' = TRUE
        /\ UNCHANGED <<world, users, left>>

Fail == /\ life \in {"new", "starting"}
        /\ life' = "failed" /\ held' = FALSE
        /\ UNCHANGED <<world, users, left>>

Up == /\ life = "starting"
      /\ life' = "running"
      /\ UNCHANGED <<held, world, users, left>>

BeginStop == /\ life = "running"
             /\ life' = "stopping"
             /\ UNCHANGED <<held, world, users, left>>

Release == /\ life \in {"running", "stopping"}
           /\ life' = "stopped" /\ held' = FALSE
           /\ UNCHANGED <<world, users, left>>

\* A client joins hardware that is held, and alone unless the server is
\* already being stopped.
Join(c) == /\ held
           /\ life = "running" => users = {}
           /\ users' = users \union {c}
           /\ UNCHANGED <<server, world, left>>

Leave(c) == /\ c \in users
            /\ users' = users \ {c}
            /\ \/ UNCHANGED left
               \/ reads' = reads \union {c} /\ UNCHANGED writes
               \/ /\ writes' = writes \union {c} /\ UNCHANGED reads
                  /\ life = "running" => broken \/ c \in gone
            /\ UNCHANGED <<server, world>>

\* A call that was left behind ends, and no other follows it.
Finish(c) == /\ \/ reads' = reads \ {c} /\ UNCHANGED writes
                \/ writes' = writes \ {c} /\ UNCHANGED reads
             /\ UNCHANGED <<server, world, users>>

Break == /\ broken' = TRUE
         /\ UNCHANGED <<server, gone, users, left>>

Lose(c) == /\ gone' = gone \union {c}
           /\ UNCHANGED <<server, broken, users, left>>

Next == \/ Open \/ Fail \/ Up \/ BeginStop \/ Release \/ Break
        \/ \E c \in Clients : Join(c) \/ Leave(c) \/ Finish(c) \/ Lose(c)

Spec == Init /\ [][Next]_vars
=============================================================================
