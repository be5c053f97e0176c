----------------------------- MODULE AiProviders -----------------------------
(***************************************************************************)
(* The companies the student has keys for, and what is sent to them.  A    *)
(* request names no company: the program takes the first of the student's  *)
(* order whose key it has and whose last word was good.  The student       *)
(* consents to the company a view shows, and a view shows the list it read *)
(* last.  Requests and tests wait for the network without any lock, and    *)
(* the study view and the rest of the window wait each for its own.        *)
(***************************************************************************)
EXTENDS Integers, Sequences, SequencesExt

CONSTANTS Provider, None

View == {"window", "study"}

VARIABLES order,    \* the student's order of the companies
          keys,     \* those with a key in the credential vault
          healthy,  \* those whose last answer or test was good
          shown,    \* the company each view shows, None without one
          consent,  \* whether each view's box is ticked
          calls,    \* the request each view waits for, None without one
          testing   \* the companies a test waits for

vars == <<order, keys, healthy, shown, consent, calls, testing>>

Orders == SetToSeqs(Provider)

Calls == [kind : {"excerpt", "materials", "picture"}, shown : Provider, to : Provider \union {None}]

Init == /\ order \in Orders
        /\ keys = {}
        /\ healthy = {}
        /\ shown = [v \in View |-> None]
        /\ consent = [v \in View |-> FALSE]
        /\ calls = [v \in View |-> None]
        /\ testing = {}

TypeOK == /\ order \in Orders
          /\ keys \subseteq Provider
          /\ healthy \subseteq Provider
          /\ shown \in [View -> Provider \union {None}]
          /\ consent \in [View -> BOOLEAN]
          /\ \A v \in View : calls[v] = None \/ calls[v] \in Calls
          /\ testing \subseteq Provider

First(ready) ==
  LET ranks == {i \in DOMAIN order : order[i] \in ready}
  IN  IF ranks = {} THEN None ELSE order[CHOOSE i \in ranks : \A j \in ranks : i <= j]

\* Every company does what every request needs, so a key and its health decide.
ResolveAiProvider == First(healthy \intersect keys)

-----------------------------------------------------------------------------
(* The settings; all but a test are over before anything else is pressed *)

Idle(v) == calls[v] = None

\* A key is tried before it is stored.  A model name that is refused afterwards leaves the key.
SaveAiProviderKey(p, done) ==
  /\ Idle("window")
  /\ keys' = keys \union {p}
  /\ healthy' = IF done THEN healthy \union {p} ELSE healthy
  /\ UNCHANGED <<order, consent, calls, testing>>
  /\ shown' = IF done THEN [shown EXCEPT !["window"] = ResolveAiProvider'] ELSE shown

RemoveAiProvider(p) ==
  /\ Idle("window")
  /\ p \in keys
  /\ keys' = keys \ {p}
  /\ healthy' = healthy \ {p}
  /\ UNCHANGED <<order, consent, calls, testing>>
  /\ shown' = [shown EXCEPT !["window"] = ResolveAiProvider']

SetAiProviderOrder(new) ==
  /\ Idle("window")
  /\ new \in Orders \ {order}
  /\ order' = new
  /\ UNCHANGED <<keys, healthy, consent, calls, testing>>
  /\ shown' = [shown EXCEPT !["window"] = ResolveAiProvider']

TestAiProvider(p) ==
  /\ Idle("window")
  /\ p \in keys
  /\ testing' = testing \union {p}
  /\ UNCHANGED <<order, keys, healthy, shown, consent, calls>>

\* A test that fails is an error for its caller, which keeps the list it has.
TestEnds(p, good) ==
  /\ p \in testing
  /\ testing' = testing \ {p}
  /\ healthy' = IF good THEN healthy \union {p} ELSE healthy \ {p}
  /\ UNCHANGED <<order, keys, consent, calls>>
  /\ shown' = IF good THEN [shown EXCEPT !["window"] = ResolveAiProvider'] ELSE shown

\* Opening the settings, the assistant or the study view reads the list.
OpenView(v) ==
  /\ shown' = [shown EXCEPT ![v] = ResolveAiProvider]
  /\ UNCHANGED <<order, keys, healthy, consent, calls, testing>>

-----------------------------------------------------------------------------
(* The requests *)

Tick(v) ==
  /\ Idle(v)
  /\ consent' = [consent EXCEPT ![v] = ~consent[v]]
  /\ UNCHANGED <<order, keys, healthy, shown, calls, testing>>

\* The button is there when the view shows a company and its box is ticked.
Ask(v) ==
  /\ Idle(v)
  /\ shown[v] # None /\ consent[v]
  /\ calls' = [calls EXCEPT ![v] = [kind |-> IF v = "study" THEN "materials" ELSE "excerpt",
                                    shown |-> shown[v], to |-> None]]
  /\ UNCHANGED <<order, keys, healthy, shown, consent, testing>>

\* A picture asks with a list of its own, read for the question.
AskWithPicture ==
  /\ Idle("window")
  /\ ResolveAiProvider # None
  /\ calls' = [calls EXCEPT !["window"] = [kind |-> "picture", shown |-> ResolveAiProvider, to |-> None]]
  /\ UNCHANGED <<order, keys, healthy, shown, consent, testing>>

\* The command finds the company once more, and sends.
Send(v) ==
  /\ calls[v] # None /\ calls[v].to = None
  /\ ResolveAiProvider # None
  /\ calls' = [calls EXCEPT ![v].to = ResolveAiProvider]
  /\ UNCHANGED <<order, keys, healthy, shown, consent, testing>>

Answered(v) == calls' = [calls EXCEPT ![v] = None]

\* The study view takes the tick back after every request, the window only after a failure.
Succeeds(v) ==
  /\ calls[v] # None /\ calls[v].to # None
  /\ Answered(v)
  /\ consent' = [consent EXCEPT ![v] = consent[v] /\ v = "window"]
  /\ UNCHANGED <<order, keys, healthy, shown, testing>>

\* Whatever the error is, the company is marked; the view reads its list again, if it
\* can be read.  A picture's question has no view of its own to refresh.
Fails(v, listed) ==
  /\ calls[v] # None
  /\ calls[v].to = None => ResolveAiProvider = None
  /\ Answered(v)
  /\ healthy' = healthy \ {calls[v].to}
  /\ UNCHANGED <<order, keys, testing>>
  /\ IF calls[v].kind = "picture"
     THEN UNCHANGED <<shown, consent>>
     ELSE /\ shown' = IF listed THEN [shown EXCEPT ![v] = ResolveAiProvider'] ELSE shown
          /\ consent' = [consent EXCEPT ![v] = FALSE]

\* The program is closed and started again: the keys, their health and the order are stored.
Restart ==
  /\ shown' = [v \in View |-> None]
  /\ consent' = [v \in View |-> FALSE]
  /\ calls' = [v \in View |-> None]
  /\ testing' = {}
  /\ UNCHANGED <<order, keys, healthy>>

Next == \/ \E p \in Provider : \/ \E done \in BOOLEAN : SaveAiProviderKey(p, done) \/ TestEnds(p, done)
                               \/ RemoveAiProvider(p)
                               \/ TestAiProvider(p)
        \/ \E new \in Orders : SetAiProviderOrder(new)
        \/ \E v \in View : \/ OpenView(v) \/ Tick(v) \/ Ask(v) \/ Send(v) \/ Succeeds(v)
                           \/ \E listed \in BOOLEAN : Fails(v, listed)
        \/ AskWithPicture
        \/ Restart

Spec == Init /\ [][Next]_vars

-----------------------------------------------------------------------------
\* The study view sends the student's materials to the company it showed when the student consented
\* (docs/PRODUCT_EXECUTION_IMPLEMENTATION.md:26).
SentToTheProviderShown ==
  \A call \in {calls["study"]} \ {None} : call.to \in {None, call.shown}
=============================================================================
