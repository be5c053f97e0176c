--------------------------- MODULE CanvasConnection ---------------------------
(***************************************************************************)
(* The Canvas connections of a profile.  A refresh marks its connection in *)
(* one hold of the database lock, reads the credential and asks the server *)
(* without it, and writes what came in a second hold; the student and the  *)
(* hourly thread refresh, connect again and disconnect meanwhile, and the  *)
(* program may stop at any point.  A token connection is one per server    *)
(* and is connected again in place; a calendar link is a new connection    *)
(* each time.                                                              *)
(***************************************************************************)
EXTENDS Integers, FiniteSets

CONSTANTS Connection, Tokened, Process, Worker, None, MaxConnects, MaxStops, MaxFailures

VARIABLES status,      \* of a connection, None before there is one
          credential,  \* the credential kept of it: the number of the connect that stored it, 0 without one
          revoked,     \* the credentials the server has revoked
          refresh,     \* what a process is doing
          due,         \* the connections a day has gone by for
          listed,      \* those the hourly thread found due and has not come to yet
          contested,   \* connected again while a refresh of them was under way, kept by no code
          connects, stops, failures

vars == <<status, credential, revoked, refresh, due, listed, contested, connects, stops, failures>>

Idle == [phase |-> "idle", connection |-> None, credential |-> 0]

Init == /\ status = [c \in Connection |-> None]
        /\ credential = [c \in Connection |-> 0]
        /\ revoked = {}
        /\ refresh = [p \in Process |-> Idle]
        /\ due = {} /\ listed = {}
        /\ contested = {}
        /\ connects = 0
        /\ stops = 0
        /\ failures = 0

TypeOK == /\ \A c \in Connection : status[c] \in {None, "syncing", "connected", "error", "needs_reauthentication", "disconnected"}
          /\ credential \in [Connection -> 0 .. MaxConnects]
          /\ \A p \in Process : refresh[p].phase \in {"idle", "begun", "asking"}
          /\ due \subseteq Connection /\ listed \subseteq Connection /\ contested \subseteq Connection

Refreshing(c) == {p \in Process : refresh[p].connection = c}

\* What the server answered was read before; the rest is one hold of the lock.
Connect(c) ==
  /\ connects < MaxConnects
  /\ c \in Tokened \/ status[c] = None
  /\ connects' = connects + 1
  /\ credential' = [credential EXCEPT ![c] = connects + 1]
  /\ status' = [status EXCEPT ![c] = "connected"]
  /\ due' = due \ {c}
  /\ contested' = IF Refreshing(c) = {} THEN contested ELSE contested \union {c}
  /\ UNCHANGED <<revoked, refresh, listed, stops, failures>>

\* Once an hour the thread lists what is due and connected, and takes one after the other.
ListDue ==
  /\ refresh[Worker] = Idle /\ listed = {}
  /\ listed' = {c \in due : status[c] = "connected"}
  /\ UNCHANGED <<status, credential, revoked, refresh, due, contested, connects, stops, failures>>

\* One that cannot be refreshed by now is passed over, and any when the program is locked.
PassOver(c) ==
  /\ refresh[Worker] = Idle /\ c \in listed
  /\ listed' = listed \ {c}
  /\ UNCHANGED <<status, credential, revoked, refresh, due, contested, connects, stops, failures>>

Marks(p, c) ==
  /\ refresh[p] = Idle
  /\ p = Worker => c \in listed
  /\ listed' = IF p = Worker THEN listed \ {c} ELSE listed
  /\ status' = [status EXCEPT ![c] = "syncing"]
  /\ refresh' = [refresh EXCEPT ![p] = [phase |-> "begun", connection |-> c, credential |-> 0]]
  /\ UNCHANGED <<credential, revoked, due, contested, connects, stops, failures>>

\* Mutant of Begin: a refresh does not look whether one is under way.
BeginUnchecked(p, c) == status[c] \in {"connected", "error", "syncing"} /\ Marks(p, c)

\* The thread comes to one of its list, whatever became of it since, or the student asks for one:
\* what is not connected, or under way, is refused.
Begin(p, c) == status[c] \in {"connected", "error"} /\ Marks(p, c)

FailRun(c, outcome) == status' = [status EXCEPT ![c] = outcome]

\* A calendar link that is gone ends the run; a token that is gone, and a vault that
\* cannot be read, leave it as it was marked.
ReadCredential(p) ==
  LET c == refresh[p].connection
  IN  /\ refresh[p].phase = "begun"
      /\ \/ /\ credential[c] # 0
            /\ refresh' = [refresh EXCEPT ![p].phase = "asking", ![p].credential = credential[c]]
            /\ UNCHANGED <<status, failures>>
         \/ /\ credential[c] = 0
            /\ refresh' = [refresh EXCEPT ![p] = Idle]
            /\ IF c \in Tokened THEN UNCHANGED status ELSE FailRun(c, "needs_reauthentication")
            /\ UNCHANGED failures
         \/ /\ failures < MaxFailures /\ failures' = failures + 1
            /\ refresh' = [refresh EXCEPT ![p] = Idle]
            /\ UNCHANGED status
      /\ UNCHANGED <<credential, revoked, due, listed, contested, connects, stops>>

Done(p) == refresh' = [refresh EXCEPT ![p] = Idle] /\ UNCHANGED <<revoked, listed, contested, connects, stops>>

PersistPull(p) ==
  LET c == refresh[p].connection
  IN  /\ refresh[p].phase = "asking" /\ refresh[p].credential \notin revoked
      /\ status' = [status EXCEPT ![c] = "connected"]
      /\ due' = due \ {c}
      /\ Done(p)
      /\ UNCHANGED <<credential, failures>>

\* A token the server refuses is removed, whichever is stored by now.
Unauthorized(p) ==
  LET c == refresh[p].connection
  IN  /\ refresh[p].phase = "asking" /\ refresh[p].credential \in revoked
      /\ FailRun(c, IF c \in Tokened THEN "needs_reauthentication" ELSE "error")
      /\ credential' = IF c \in Tokened THEN [credential EXCEPT ![c] = 0] ELSE credential
      /\ Done(p)
      /\ UNCHANGED <<due, failures>>

RefreshFails(p) ==
  /\ refresh[p].phase = "asking"
  /\ failures < MaxFailures /\ failures' = failures + 1
  /\ FailRun(refresh[p].connection, "error")
  /\ Done(p)
  /\ UNCHANGED <<credential, due>>

Disconnect(c) ==
  /\ status[c] \notin {None, "disconnected"}
  /\ status' = [status EXCEPT ![c] = "disconnected"]
  /\ credential' = [credential EXCEPT ![c] = 0]
  /\ UNCHANGED <<revoked, refresh, due, listed, contested, connects, stops, failures>>

Revoke(n) ==
  /\ n \notin revoked
  /\ revoked' = revoked \union {n}
  /\ UNCHANGED <<status, credential, refresh, due, listed, contested, connects, stops, failures>>

DayGoesBy ==
  /\ due # Connection
  /\ due' = Connection
  /\ UNCHANGED <<status, credential, revoked, refresh, listed, contested, connects, stops, failures>>

Stop ==
  /\ stops < MaxStops /\ stops' = stops + 1
  /\ refresh' = [p \in Process |-> Idle]
  /\ contested' = {} /\ listed' = {}
  /\ UNCHANGED <<status, credential, revoked, due, connects, failures>>

Next == \/ \E c \in Connection : Connect(c) \/ Disconnect(c)
        \/ \E p \in Process : \/ \E c \in Connection : Begin(p, c)
                              \/ ReadCredential(p)
                              \/ PersistPull(p)
                              \/ Unauthorized(p)
                              \/ RefreshFails(p)
        \/ \E n \in 1 .. MaxConnects : Revoke(n)
        \/ ListDue
        \/ \E c \in listed : PassOver(c)
        \/ DayGoesBy
        \/ Stop

Spec == Init /\ [][Next]_vars

\* The thread and the student never refresh one connection at the same time, disconnected
\* and stopped as it may be, unless the student connects it again during a refresh; and then
\* what a refresh asks with is a credential that was stored for this very connection.
OneRefreshAtATime ==
  /\ \A c \in Connection \ contested : Cardinality(Refreshing(c)) <= 1
  /\ \A p \in Process : refresh[p].phase = "asking" => refresh[p].credential \in 1 .. connects
=============================================================================
