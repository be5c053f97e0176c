---------------------------- MODULE AccountSession ----------------------------
(***************************************************************************)
(* The optional account: auth.rs, and the commands and callbacks of        *)
(* main.rs that end there.  Everything that touches the account holds its  *)
(* lock, its call to the service included; the callback of a Google        *)
(* sign-in comes from the browser, late, twice or never.  A session is     *)
(* known by its refresh token, a number, which every refresh replaces.     *)
(* The service is external: it knows the tokens that are good.             *)
(***************************************************************************)
EXTENDS Integers, FiniteSets

CONSTANTS Account, None, FlowLifetime, MaxTokens, MaxFlows, MaxTime, MaxStops, MaxFailures

VARIABLES now, locked,
          session,    \* what is in memory
          stored,     \* what is in the credential vault
          available,  \* whether the vault could be read
          email,      \* the address a code was asked for
          google,     \* the sign-in that was begun: its flow and when
          callback,   \* the flow of a callback that found the program unlocked
          call,       \* who holds the account's lock: its operation and flow, and the session the service made
          good,       \* the tokens the service takes
          tokens, flows,
          lost,       \* whether an answer or a write was lost since the last sign-in, kept by no code
          wanted,     \* the flow the student has begun and not given up since, kept by no code
          stops, failures

vars == <<now, locked, session, stored, available, email, google, callback, call, good, tokens, flows,
          lost, wanted, stops, failures>>

Free == [op |-> "none", flow |-> None, session |-> None]

Session(account, token) == [account |-> account, token |-> token]

Init == /\ now = 0 /\ locked = FALSE
        /\ session = None /\ stored = None /\ available = TRUE
        /\ email = None /\ google = None /\ callback = None
        /\ call = Free
        /\ good = {} /\ tokens = 0 /\ flows = 0
        /\ lost = FALSE /\ wanted = None
        /\ stops = 0 /\ failures = 0

TypeOK == /\ \A s \in {session, stored, call.session} :
               s = None \/ (s.account \in Account /\ s.token \in 1 .. tokens)
          /\ email \in Account \union {None}
          /\ google = None \/ google.flow \in 1 .. flows
          /\ call.op \in {"none", "email", "google", "refresh"}
          /\ good \subseteq 1 .. tokens

Fault == failures < MaxFailures /\ failures' = failures + 1

-----------------------------------------------------------------------------
(* Signing in by a code *)

RequestEmailCode(account) ==
  /\ ~locked /\ call = Free /\ available
  /\ email' = account
  /\ google' = None /\ wanted' = None
  /\ UNCHANGED <<now, locked, session, stored, available, callback, call, good, tokens, flows, lost, stops, failures>>

\* What the service makes of a call: it replaces a token it takes, or makes a new one.
Asks(op, flow, account, old) ==
  /\ tokens < MaxTokens /\ tokens' = tokens + 1
  /\ good' = (good \ old) \union {tokens + 1}
  /\ call' = [op |-> op, flow |-> flow, session |-> Session(account, tokens + 1)]

VerifyEmailCode(account) ==
  /\ ~locked /\ call = Free /\ available
  /\ email = account
  /\ Asks("email", None, account, {})
  /\ UNCHANGED <<now, locked, session, stored, available, email, google, callback, flows, lost, wanted, stops, failures>>

-----------------------------------------------------------------------------
(* Signing in with Google *)

BeginGoogleSignIn ==
  /\ ~locked /\ call = Free /\ available
  /\ session = None
  /\ flows < MaxFlows /\ flows' = flows + 1
  /\ google' = [flow |-> flows + 1, started |-> now]
  /\ email' = None
  /\ wanted' = flows + 1
  /\ UNCHANGED <<now, locked, session, stored, available, callback, call, good, tokens, lost, stops, failures>>

\* By the student, or because the browser could not be opened.
CancelGoogleSignIn ==
  /\ ~locked /\ call = Free
  /\ google' = None /\ wanted' = None
  /\ UNCHANGED <<now, locked, session, stored, available, email, callback, call, good, tokens, flows, lost, stops, failures>>

\* The browser calls back, for any flow there ever was.
AcceptDeepLink(flow) ==
  /\ callback = None
  /\ IF locked
     THEN call = Free /\ google' = None /\ wanted' = None /\ UNCHANGED callback
     ELSE callback' = flow /\ UNCHANGED <<google, wanted>>
  /\ UNCHANGED <<now, locked, session, stored, available, email, call, good, tokens, flows, lost, stops, failures>>

Current == google # None /\ now - google.started <= FlowLifetime

\* Any account may have been chosen in the browser; what the browser says may be an error.
CompleteGoogleSignIn(account) ==
  /\ callback # None /\ call = Free
  /\ callback' = None
  /\ \/ ~Current /\ google' = None /\ UNCHANGED <<call, good, tokens>>
     \/ Current /\ google.flow # callback /\ UNCHANGED <<google, call, good, tokens>>
     \/ Current /\ google.flow = callback /\ google' = None /\ UNCHANGED <<call, good, tokens>>
     \/ /\ Current /\ google.flow = callback /\ google' = None
        /\ available /\ Asks("google", callback, account, {})
  /\ UNCHANGED <<now, locked, session, stored, available, email, flows, lost, wanted, stops, failures>>

-----------------------------------------------------------------------------
(* Refreshing: the student's command, and whatever asks for an access token *)

Refresh ==
  /\ session # None /\ call = Free /\ available
  /\ session.token \in good
  /\ Asks("refresh", None, session.account, {session.token})
  /\ UNCHANGED <<now, locked, session, stored, available, email, google, callback, flows, lost, wanted, stops, failures>>

\* Mutant of Answered: a refreshed session stays in memory.
AnsweredInMemory ==
  /\ call # Free
  /\ stored' = IF call.op = "refresh" THEN stored ELSE call.session
  /\ session' = call.session
  /\ email' = IF call.op = "email" THEN None ELSE email
  /\ google' = IF call.op = "email" THEN None ELSE google
  /\ wanted' = IF call.op = "refresh" THEN wanted ELSE None
  /\ lost' = FALSE
  /\ call' = Free
  /\ UNCHANGED <<now, locked, available, callback, good, tokens, flows, stops, failures>>

\* The session is stored before it takes the place of the one in memory.
Answered ==
  /\ call # Free
  /\ stored' = call.session
  /\ session' = call.session
  /\ email' = IF call.op = "email" THEN None ELSE email
  /\ google' = IF call.op = "email" THEN None ELSE google
  /\ wanted' = IF call.op = "refresh" THEN wanted ELSE None
  /\ lost' = FALSE
  /\ call' = Free
  /\ UNCHANGED <<now, locked, available, callback, good, tokens, flows, stops, failures>>

\* The answer does not come, or cannot be stored.
Fails ==
  /\ call # Free /\ Fault
  /\ call' = Free
  /\ lost' = (lost \/ call.op = "refresh")
  /\ UNCHANGED <<now, locked, session, stored, available, email, google, callback, good, tokens, flows, wanted, stops>>

\* The service is told when it can be; a vault that fails leaves the student signed in.
SignOut ==
  /\ ~locked /\ call = Free
  /\ good' \in {good, good \ {t \in good : session # None /\ t = session.token}}
  /\ \/ /\ session' = None /\ stored' = None /\ available' = TRUE
        /\ email' = None /\ google' = None /\ wanted' = None
        /\ lost' = FALSE
        /\ UNCHANGED failures
     \/ /\ Fault
        /\ lost' = (lost \/ good' # good)
        /\ UNCHANGED <<session, stored, available, email, google, wanted>>
  /\ UNCHANGED <<now, locked, callback, call, tokens, flows, stops>>

-----------------------------------------------------------------------------
Lock == /\ locked' = ~locked
        /\ UNCHANGED <<now, session, stored, available, email, google, callback, call, good, tokens, flows,
                       lost, wanted, stops, failures>>

\* The program stops, in a call or not, and is started again.
Restart ==
  /\ stops < MaxStops /\ stops' = stops + 1
  /\ \/ session' = stored /\ available' = TRUE /\ UNCHANGED failures
     \/ Fault /\ session' = None /\ available' = FALSE
  /\ email' = None /\ google' = None /\ callback' = None /\ wanted' = None
  /\ lost' = (lost \/ call.op = "refresh")
  /\ call' = Free
  /\ UNCHANGED <<now, locked, stored, good, tokens, flows>>

Wait == now < MaxTime /\ now' = now + 1
        /\ UNCHANGED <<locked, session, stored, available, email, google, callback, call, good, tokens, flows,
                       lost, wanted, stops, failures>>

Next == \/ \E account \in Account : RequestEmailCode(account) \/ VerifyEmailCode(account) \/ CompleteGoogleSignIn(account)
        \/ BeginGoogleSignIn \/ CancelGoogleSignIn
        \/ \E flow \in 1 .. flows : AcceptDeepLink(flow)
        \/ Refresh \/ Answered \/ Fails \/ SignOut
        \/ Lock \/ Restart \/ Wait

Spec == Init /\ [][Next]_vars

-----------------------------------------------------------------------------
\* Between two calls the vault holds the session that is in memory, so a start finds the
\* student signed in as before; and as long as no answer to a refresh and no write after one
\* was lost, its token is one the service takes, although each refresh uses the last one up.
SessionIsKept ==
  call = Free /\ available =>
    /\ session = stored
    /\ session # None /\ ~lost => session.token \in good

\* A callback signs in nobody who is signed in already, and only for the sign-in the student
\* began last and has not given up, by a cancel, a code or a lock that met it, since.
CallbackIsWanted == call.op = "google" => session = None /\ call.flow = wanted
=============================================================================
