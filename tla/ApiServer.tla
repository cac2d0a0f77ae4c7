----------------------------- MODULE ApiServer ------------------------------
(***************************************************************************)
(* An API endpoint: BaseAPI of osbuild/api.py, a thread that runs an event *)
(* loop over a listening socket and the sockets of the clients it has      *)
(* accepted.  __exit__ asks the loop to stop from another thread.          *)
(*                                                                         *)
(* The loop works in rounds.  A round picks up what is pending when it     *)
(* polls: the next client in the backlog is accepted, the messages of      *)
(* clients that were accepted in earlier rounds are dispatched, and if     *)
(* stop() was called the loop ends after the round.  Each client sends one *)
(* message as soon as it is connected.                                     *)
(***************************************************************************)
CONSTANT Client

VARIABLE srv
\* loop: what the thread does; stop: loop.stop has been scheduled;
\* backlog: clients that are connected and not accepted; open: accepted ones;
\* sent: clients that have sent their message; done: those it was dispatched of

Init ==
    srv = [loop |-> "off", stop |-> FALSE, backlog |-> {}, open |-> {},
           sent |-> {}, done |-> {}]

\* __enter__ returns once the server listens
Enter ==
    /\ srv.loop = "off"
    /\ srv' = [srv EXCEPT !.loop = "on"]

\* new_client(path).send(msg): only a server that listens can be connected to
Request(c) ==
    /\ srv.loop = "on"
    /\ c \notin srv.sent
    /\ srv' = [srv EXCEPT !.backlog = @ \cup {c}, !.sent = @ \cup {c}]

\* Clients whose sockets the loop finds readable.
Ready == (srv.sent \ srv.done) \cap srv.open

\* A round of the loop: accept one client, dispatch the messages, stop.
Round ==
    /\ srv.loop = "on"
    /\ srv.stop \/ srv.backlog # {} \/ Ready # {}
    /\ \E new \in IF srv.backlog = {} THEN {{}} ELSE {{c} : c \in srv.backlog} :
          srv' = [srv EXCEPT
                    !.backlog = @ \ new,
                    !.open = @ \cup new,
                    !.done = @ \cup Ready,
                    !.loop = IF srv.stop THEN "off" ELSE "on"]

\* __exit__: call_soon_threadsafe(loop.stop); it then joins the thread.
Exit ==
    /\ srv.loop = "on" /\ ~srv.stop
    /\ srv' = [srv EXCEPT !.stop = TRUE]

\* The thread is gone.
Ended == srv.stop /\ srv.loop = "off"

\* The process of the server is killed.
Killed == srv' = [srv EXCEPT !.loop = "off", !.stop = TRUE]

\* Messages are dispatched after they were sent, to clients that are accepted.
TypeOK ==
    /\ srv \in [loop : {"off", "on"}, stop : BOOLEAN, backlog : SUBSET Client,
               open : SUBSET Client, sent : SUBSET Client, done : SUBSET Client]
    /\ srv.backlog \cap srv.open = {}
    /\ srv.sent = srv.backlog \cup srv.open
    /\ srv.done \subseteq srv.open
=============================================================================
