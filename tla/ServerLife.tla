------------------------------ MODULE ServerLife ------------------------------
(***************************************************************************)
(* What an operator and the clients may expect of the server's life: it    *)
(* comes up once and goes down once; a client is taken in by the acceptor, *)
(* let go by the worker or by a stop, and never seen again; and when a     *)
(* stop is over, both threads have ended.  Server implements this for as   *)
(* long as none of its threads runs into undefined behaviour.              *)
(***************************************************************************)
EXTENDS FiniteSets

CONSTANT Clients

VARIABLES
  life,     \* "down", "up", "stopping", "stopped"
  threads,  \* which of the acceptor and the worker are running
  place     \* place[c]: where client c is seen from the server

lifeVars == <<life, threads, place>>

LifeTypeOK ==
  /\ life \in {"down", "up", "stopping", "stopped"}
  /\ threads \subseteq {"acceptor", "worker"}
  /\ place \in [Clients -> {"outside", "inside", "left"}]

LifeInit ==
  /\ life = "down"
  /\ threads = {}
  /\ place = [c \in Clients |-> "outside"]

ComeUp ==
  /\ life = "down"
  /\ life' = "up"
  /\ UNCHANGED <<threads, place>>

\* The acceptor is only started once there is a worker to give clients to.
StartThread ==
  /\ life = "up"
  /\ \/ threads = {} /\ threads' = {"worker"}
     \/ threads = {"worker"} /\ threads' = {"worker", "acceptor"}
  /\ UNCHANGED <<life, place>>

\* Also while the server stops: accept() may have returned just before.
LetIn(c) ==
  /\ "acceptor" \in threads
  /\ place[c] = "outside"
  /\ place' = [place EXCEPT ![c] = "inside"]
  /\ UNCHANGED <<life, threads>>

\* By the worker, or by a stop: a second one may find who was let in behind the
\* back of the first.
LetGo(c) ==
  /\ place[c] = "inside"
  /\ "worker" \in threads \/ life \in {"stopping", "stopped"}
  /\ place' = [place EXCEPT ![c] = "left"]
  /\ UNCHANGED <<life, threads>>

GoDown ==
  /\ life \in {"down", "up"}
  /\ life' = "stopping"
  /\ UNCHANGED <<threads, place>>

EndThread ==
  /\ life = "stopping"
  /\ \E t \in threads : threads' = threads \ {t}
  /\ UNCHANGED <<life, place>>

Stopped ==
  /\ life = "stopping"
  /\ threads = {}
  /\ life' = "stopped"
  /\ UNCHANGED <<threads, place>>

LifeNext ==
  \/ ComeUp \/ StartThread \/ GoDown \/ EndThread \/ Stopped
  \/ \E c \in Clients : LetIn(c) \/ LetGo(c)

LifeSpec == LifeInit /\ [][LifeNext]_lifeVars
===============================================================================
