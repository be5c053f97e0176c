-------------------------- MODULE AccessSourceProofs --------------------------
(***************************************************************************)
(* Proofs about the parts of AccessParts and SourceParts, for any PINs,    *)
(* keys, accounts, computers, connections, classes, companies, chunks,     *)
(* versions and samples, and any number of stops and failures.  Those      *)
(* about the files of the profile are ProfileFilesProofs.                  *)
(***************************************************************************)
EXTENDS AccessParts, SourceParts, Sequences, FiniteSetTheorems, WellFoundedInduction, TLAPS

-----------------------------------------------------------------------------
(* The key of the database.  Whether the next start finds it depends on     *)
(* where the one under way took its own from, so the invariant says of each *)
(* step of a start what the two stores hold by then.                        *)

KeyTypes == /\ TypeOK
            /\ made \in 0 .. MaxKeys
            /\ unreadable \in BOOLEAN

\* On Windows the protected file is what opens the database, and while there is none the
\* entry of the credential vault is; a key is made only without a database.
OnWindows ==
  windows =>
    /\ database # 0 =>
         IF protected # 0 THEN protected = database ELSE credential = database \/ (credential = 0 /\ unreadable)
    /\ pc \in {"credential", "keep", "make"} => protected = 0
    /\ pc = "keep" => key = credential /\ key # 0
    /\ pc \in {"make", "copy"} => database = 0
    /\ pc \in {"copy", "open"} => key = protected /\ key # 0

\* Elsewhere the vault's entry is the key, as long as it could always be read.
Elsewhere ==
  ~windows =>
    /\ protected = 0
    /\ pc \notin {"protected", "keep", "copy"}
    /\ pc = "open" => key # 0
    /\ ~unreadable => /\ database # 0 => credential = database
                      /\ pc = "make" => database = 0
                      /\ pc = "open" => key = credential

KeyInv == KeyTypes /\ OnWindows /\ Elsewhere

\* The invariant implies what the starts promise.
LEMMA KeyImplies == KeyInv => KeyOpensDatabase
  BY DEF KeyInv, KeyTypes, TypeOK, OnWindows, Elsewhere, KeyOpensDatabase

\* A profile without a key, and one of an older version, satisfy it.
LEMMA KeyInit == Init => KeyInv
<1> SUFFICES ASSUME Init PROVE KeyInv
  OBVIOUS
<1> USE DEF Init, Legacy
<1>1. made \in {0, 1} /\ credential \in {0, 1} /\ database \in {0, 1}
  OBVIOUS
<1>2. KeyTypes
  <2>1. {0, 1} \subseteq 0 .. MaxKeys
    BY KeysAssumption
  <2>2. windows \in BOOLEAN /\ unreadable \in BOOLEAN /\ pc = "off" /\ protected = 0 /\ key = 0
    OBVIOUS
  <2> HIDE DEF Init, Legacy
  <2> QED
    BY <1>1, <2>1, <2>2 DEF KeyTypes, TypeOK
<1>3. OnWindows /\ Elsewhere
  BY <1>1 DEF OnWindows, Elsewhere
<1> QED
  BY <1>2, <1>3 DEF KeyInv

\* Every step of a start, of its end and of another hand preserves it.
LEMMA KeyNext == KeyInv /\ [Next]_vars => KeyInv'
<1> SUFFICES ASSUME KeyInv, [Next]_vars PROVE KeyInv'
  OBVIOUS
<1> USE KeysAssumption DEF KeyInv, KeyTypes, TypeOK, OnWindows, Elsewhere
<1>1. CASE UNCHANGED vars
  BY <1>1 DEF vars
<1>2. ASSUME UNCHANGED windows, Start PROVE KeyInv'
  BY <1>2 DEF Start
<1>3. ASSUME UNCHANGED windows, ReadProtected PROVE KeyInv'
  BY <1>3 DEF ReadProtected
<1>4. ASSUME UNCHANGED windows, ReadCredential PROVE KeyInv'
  BY <1>4 DEF ReadCredential
<1>5. ASSUME UNCHANGED windows, NoCredential PROVE KeyInv'
  BY <1>5 DEF NoCredential, MayMake, Keep
<1>6. ASSUME UNCHANGED windows, CredentialFails PROVE KeyInv'
  BY <1>6 DEF CredentialFails, MayMake
<1>7. ASSUME UNCHANGED windows, WriteProtected PROVE KeyInv'
  BY <1>7 DEF WriteProtected
<1>8. ASSUME UNCHANGED windows, Make PROVE KeyInv'
  BY <1>8 DEF Make
<1>9. ASSUME UNCHANGED windows, Copy PROVE KeyInv'
  BY <1>9 DEF Copy
<1>10. ASSUME UNCHANGED windows, OpenDatabase PROVE KeyInv'
  BY <1>10 DEF OpenDatabase
<1>11. ASSUME UNCHANGED windows, Ends PROVE KeyInv'
  BY <1>11 DEF Ends, Keep
<1>12. ASSUME UNCHANGED windows, LoseCredential PROVE KeyInv'
  BY <1>12 DEF LoseCredential
<1> QED
  BY <1>1, <1>2, <1>3, <1>4, <1>5, <1>6, <1>7, <1>8, <1>9, <1>10, <1>11, <1>12 DEF Next, Step

\* A start never takes another key than the database's, and the key stays stored: load_or_create
\* of device_key.rs, for any sequence of starts, stops, failures and lost entries.
THEOREM KeyAlwaysOpens == Spec => []KeyOpensDatabase
<1>1. Spec => []KeyInv
  BY KeyInit, KeyNext, PTL DEF Spec
<1> QED
  BY <1>1, KeyImplies, PTL
-----------------------------------------------------------------------------
(* The PIN.  What a start would find, and for each step of a settings       *)
(* command where the two records are by then.                               *)

PinSteps == {"none", "clear", "aside", "place", "tidy", "drop", "dropOld"}

\* No command is under way in a program that does not run.
PinCommandRuns ==
  /\ command \in [step : PinSteps, result : SUBSET PinCode, resets : BOOLEAN]
  /\ command.step = "none" => command = Pin!NoCommand
  /\ ~running => command = Pin!NoCommand

\* The record that is replaced is in place or beside until the new one is in place.
PinReplaced ==
  /\ command.step \in {"clear", "aside", "place"} =>
       temporary = command.result /\ command.result # {} /\ command.result \in pinExpected
  /\ command.step \in {"clear", "aside"} => file \in pinExpected
  /\ command.step = "aside" => previous = {}
  /\ command.step = "place" => file = {}
  /\ command.step = "tidy" => file = command.result /\ file # {}

\* A record that is dropped is the only one, or an older one may come back.
PinDropped ==
  /\ command.step \in {"drop", "dropOld"} => command.result = {} /\ {} \in pinExpected /\ previous \in pinExpected
  /\ command.step = "drop" => file # {}
  /\ command.step = "dropOld" => file = {}

PinInv == PinCommandRuns /\ PinReplaced /\ PinDropped /\ Pin!PinIsKept

\* Without a PIN the invariant holds.
LEMMA PinInit == Pin!Init => PinInv
  BY DEF Pin!Init, PinInv, PinCommandRuns, PinReplaced, PinDropped, Pin!PinIsKept, Pin!Found, Pin!NoCommand, PinSteps

\* Every step of the settings, of unlocking, and of the program preserves it.
LEMMA PinNext == PinInv /\ [Pin!Next]_(Pin!vars) => PinInv'
<1> SUFFICES ASSUME PinInv, [Pin!Next]_(Pin!vars) PROVE PinInv'
  OBVIOUS
<1> USE DEF PinInv, PinCommandRuns, PinReplaced, PinDropped, Pin!PinIsKept, Pin!Found, Pin!NoCommand, PinSteps
<1>1. CASE UNCHANGED Pin!vars
  BY <1>1 DEF Pin!vars, Pin!files
<1>2. ASSUME NEW p \in PinCode, Pin!EnablePin(p) PROVE PinInv'
  BY <1>2 DEF Pin!EnablePin, Pin!Begin
<1>3. ASSUME NEW p \in PinCode, Pin!ChangePin(p) PROVE PinInv'
  BY <1>3 DEF Pin!ChangePin, Pin!Begin
<1>4. CASE Pin!DisablePin
  BY <1>4 DEF Pin!DisablePin, Pin!Begin, Pin!files
<1>5. CASE Pin!Step
  <2>1. CASE command.step = "clear"
    BY <1>5, <2>1 DEF Pin!Step, Pin!Goes
  <2>2. CASE command.step = "aside"
    BY <1>5, <2>2 DEF Pin!Step, Pin!Goes
  <2>3. CASE command.step = "place"
    BY <1>5, <2>3 DEF Pin!Step, Pin!Goes
  <2>4. CASE command.step = "drop"
    BY <1>5, <2>4 DEF Pin!Step, Pin!Goes
  <2>5. CASE command.step \in {"tidy", "dropOld"}
    <3>1. /\ command' = Pin!NoCommand /\ pinExpected' = {command.result}
          /\ previous' = {} /\ file' = file /\ file' = command.result
      BY <1>5, <2>5 DEF Pin!Step, Pin!Succeeds
    <3>2. command'.step = "none"
      BY <3>1
    <3>3. Pin!NoCommand \in [step : PinSteps, result : SUBSET PinCode, resets : BOOLEAN]
      OBVIOUS
    <3>4. PinCommandRuns'
      BY ONLY <3>1, <3>3, <2>5 DEF PinCommandRuns
    <3>5. PinReplaced' /\ PinDropped'
      BY ONLY <3>2 DEF PinReplaced, PinDropped
    <3> QED
      BY ONLY <3>1, <3>4, <3>5 DEF PinInv, Pin!PinIsKept, Pin!Found
  <2> QED
    BY <1>5, <2>1, <2>2, <2>3, <2>4, <2>5 DEF Pin!Step
<1>6. CASE Pin!StepFails
  BY <1>6 DEF Pin!StepFails, Pin!TakesBack, Pin!files
<1>7. CASE Pin!LockApp
  BY <1>7 DEF Pin!LockApp, Pin!files
<1>8. ASSUME NEW c \in Caller, NEW p \in PinCode, Pin!UnlockWithPin(c, p) PROVE PinInv'
  BY <1>8 DEF Pin!UnlockWithPin, Pin!files
<1>9. ASSUME NEW c \in Caller, Pin!CheckDelay(c) PROVE PinInv'
  BY <1>9 DEF Pin!CheckDelay, Pin!files
<1>10. ASSUME NEW c \in Caller, Pin!Verify(c) PROVE PinInv'
  BY <1>10 DEF Pin!Verify, Pin!files
<1>11. CASE Pin!Stop
  BY <1>11 DEF Pin!Stop, Pin!files
<1>12. CASE Pin!Start
  BY <1>12 DEF Pin!Start
<1>13. CASE Pin!StartFails
  <2>1. /\ command' = command /\ command = Pin!NoCommand /\ ~running' /\ UNCHANGED pinExpected
        /\ file' = Pin!Found /\ previous' = {}
    BY <1>13 DEF Pin!StartFails
  <2> QED
    BY <2>1
<1>14. CASE Pin!Wait
  BY <1>14 DEF Pin!Wait, Pin!files
<1> QED
  BY <1>1, <1>2, <1>3, <1>4, <1>5, <1>6, <1>7, <1>8, <1>9, <1>10, <1>11, <1>12, <1>13, <1>14 DEF Pin!Next

\* Wherever a settings command fails or the program stops, the PIN found next is the one before or
\* the one asked for, or the one an earlier command left; the one in force too, unless a new record
\* could not be moved in nor the old one back.
THEOREM PinsAreKept == Pin!Spec => []Pin!PinIsKept
<1>1. Pin!Init => PinInv
  BY PinInit
<1>2. PinInv /\ [Pin!Next]_(Pin!vars) => PinInv'
  BY PinNext
<1>3. PinInv => Pin!PinIsKept
  BY DEF PinInv
<1> QED
  BY <1>1, <1>2, <1>3, PTL DEF Pin!Spec
-----------------------------------------------------------------------------
(* The account's session.                                                   *)

\* A call under way comes from a vault that could be read.
CallsFollow ==
  /\ call = Account!Free \/ (call.op \in {"email", "google", "refresh"} /\ available)
  /\ call.op = "refresh" => session # None
  /\ call.op = "google" => session = None /\ google = None /\ call.flow = wanted

\* What is stored is good unless a refresh is using it up or its answer was lost; what a call
\* will store is good.
TokensFollow ==
  /\ available => session = accountStored
  /\ ~available => session = None
  /\ call # Account!Free => call.session.token \in good
  /\ accountStored # None /\ ~lost /\ call.op # "refresh" => accountStored.token \in good

\* A sign-in that was begun is the wanted one, and nobody is signed in.
SignInsFollow == google # None => session = None /\ google.flow = wanted

SessionInv == CallsFollow /\ TokensFollow /\ SignInsFollow

\* The invariant implies both promises.
LEMMA SessionImplies == SessionInv => Account!SessionIsKept /\ Account!CallbackIsWanted
  BY DEF SessionInv, CallsFollow, TokensFollow, SignInsFollow, Account!SessionIsKept, Account!CallbackIsWanted, Account!Free

\* Nobody is signed in at first.
LEMMA SessionInit == Account!Init => SessionInv
  BY DEF Account!Init, SessionInv, CallsFollow, TokensFollow, SignInsFollow, Account!Free

\* Every step preserves it.
LEMMA SessionNext == SessionInv /\ [Account!Next]_(Account!vars) => SessionInv'
<1> SUFFICES ASSUME SessionInv, [Account!Next]_(Account!vars) PROVE SessionInv'
  OBVIOUS
<1> USE DEF SessionInv, CallsFollow, TokensFollow, SignInsFollow, Account!Free
<1>1. CASE UNCHANGED Account!vars
  BY <1>1 DEF Account!vars
<1>2. ASSUME NEW account \in User, Account!RequestEmailCode(account) PROVE SessionInv'
  BY <1>2 DEF Account!RequestEmailCode
<1>3. ASSUME NEW account \in User, Account!VerifyEmailCode(account) PROVE SessionInv'
  BY <1>3 DEF Account!VerifyEmailCode, Account!Asks, Account!Session
<1>4. ASSUME NEW account \in User, Account!CompleteGoogleSignIn(account) PROVE SessionInv'
  BY <1>4 DEF Account!CompleteGoogleSignIn, Account!Current, Account!Asks, Account!Session
<1>5. CASE Account!BeginGoogleSignIn
  BY <1>5 DEF Account!BeginGoogleSignIn
<1>6. CASE Account!CancelGoogleSignIn
  BY <1>6 DEF Account!CancelGoogleSignIn
<1>7. ASSUME NEW flow \in 1 .. flows, Account!AcceptDeepLink(flow) PROVE SessionInv'
  BY <1>7 DEF Account!AcceptDeepLink
<1>8. CASE Account!Refresh
  BY <1>8 DEF Account!Refresh, Account!Asks, Account!Session
<1>9. CASE Account!Answered
  BY <1>9 DEF Account!Answered
<1>10. CASE Account!Fails
  BY <1>10 DEF Account!Fails, Account!Fault
<1>11. CASE Account!SignOut
  <2>1. call = Account!Free /\ UNCHANGED <<callback, call>> /\ call.op # "refresh" /\ call.op # "google"
    BY <1>11 DEF Account!SignOut
  <2>2. CASE session' = None /\ accountStored' = None /\ available' = TRUE /\ google' = None
    BY <2>1, <2>2
  <2>3. CASE /\ lost' = (lost \/ good' # good)
             /\ UNCHANGED <<session, accountStored, available, google, wanted>>
    <3>1. CASE good' = good
      BY <2>1, <2>3, <3>1
    <3>2. CASE good' # good
      BY <2>1, <2>3, <3>2
    <3> QED
      BY <3>1, <3>2
  <2> QED
    BY <1>11, <2>2, <2>3 DEF Account!SignOut
<1>12. CASE Account!Lock
  BY <1>12 DEF Account!Lock
<1>13. CASE Account!Restart
  BY <1>13 DEF Account!Restart, Account!Fault
<1>14. CASE Account!Wait
  BY <1>14 DEF Account!Wait
<1> QED
  BY <1>1, <1>2, <1>3, <1>4, <1>5, <1>6, <1>7, <1>8, <1>9, <1>10, <1>11, <1>12, <1>13, <1>14 DEF Account!Next

\* The vault has the session that is in use and its token is good as long as no answer was lost,
\* and a callback signs in only who is wanted.
THEOREM SessionsAreKept == Account!Spec => [](Account!SessionIsKept /\ Account!CallbackIsWanted)
<1>1. Account!Init => SessionInv
  BY SessionInit
<1>2. SessionInv /\ [Account!Next]_(Account!vars) => SessionInv'
  BY SessionNext
<1>3. SessionInv => Account!SessionIsKept /\ Account!CallbackIsWanted
  BY SessionImplies
<1> QED
  BY <1>1, <1>2, <1>3, PTL DEF Account!Spec
\* Its types.
SessionTypes == Account!TypeOK /\ tokens \in Nat /\ flows \in Nat

\* Nobody is signed in at first.
LEMMA SessionTypesInit == Account!Init => SessionTypes
  BY DEF Account!Init, SessionTypes, Account!TypeOK, Account!Free

\* A token that was good enough stays one.
LEMMA TokensGrow ==
  ASSUME SessionTypes, tokens' \in {tokens, tokens + 1}, NEW s, s = None \/ (s.account \in User /\ s.token \in 1 .. tokens)
  PROVE  s = None \/ (s.account \in User /\ s.token \in 1 .. tokens')
  BY DEF SessionTypes

\* What the service makes of a call is a session, and tokens it takes.
LEMMA AsksForSession ==
  ASSUME SessionTypes, NEW op, NEW flow, NEW account \in User, NEW old, Account!Asks(op, flow, account, old)
  PROVE  /\ tokens' = tokens + 1 /\ tokens' \in Nat
         /\ good' \subseteq 1 .. tokens'
         /\ call'.op = op /\ call'.session.account \in User /\ call'.session.token \in 1 .. tokens'
<1>1. tokens \in Nat /\ good \subseteq 1 .. tokens
  BY DEF SessionTypes, Account!TypeOK
<1>2. tokens' = tokens + 1 /\ good' = (good \ old) \union {tokens + 1}
  BY DEF Account!Asks
<1>3. call' = [op |-> op, flow |-> flow, session |-> [account |-> account, token |-> tokens + 1]]
  BY DEF Account!Asks, Account!Session
<1>4. good' \subseteq 1 .. tokens'
  <2>1. tokens + 1 \in 1 .. tokens + 1 /\ \A t \in 1 .. tokens : t \in 1 .. tokens + 1
    BY <1>1
  <2> QED
    BY <1>1, <1>2, <2>1
<1> QED
  BY <1>1, <1>2, <1>3, <1>4

\* Every step keeps them.
LEMMA SessionTypesNext == SessionTypes /\ [Account!Next]_(Account!vars) => SessionTypes'
<1> SUFFICES ASSUME SessionTypes, [Account!Next]_(Account!vars) PROVE SessionTypes'
  OBVIOUS
<1> DEFINE IsSession(s, n) == s = None \/ (s.account \in User /\ s.token \in 1 .. n)
           Sessions == IsSession(session', tokens') /\ IsSession(accountStored', tokens') /\ IsSession(call'.session, tokens')
           Rest == /\ email' \in User \union {None}
                   /\ google' = None \/ google'.flow \in 1 .. flows'
                   /\ flows' \in Nat
           Calls == /\ call'.op \in {"none", "email", "google", "refresh"}
                    /\ good' \subseteq 1 .. tokens'
                    /\ tokens' \in Nat
<1>0. Sessions /\ Rest /\ Calls => SessionTypes'
  BY DEF SessionTypes, Account!TypeOK
<1>a. /\ IsSession(session, tokens) /\ IsSession(accountStored, tokens) /\ IsSession(call.session, tokens)
      /\ email \in User \union {None} /\ (google = None \/ google.flow \in 1 .. flows)
      /\ flows \in Nat /\ tokens \in Nat
      /\ call.op \in {"none", "email", "google", "refresh"} /\ good \subseteq 1 .. tokens
  BY DEF SessionTypes, Account!TypeOK
<1>b. UNCHANGED <<tokens, good>> /\ (UNCHANGED call \/ call' = Account!Free) => Calls
  BY <1>a DEF Account!Free
<1>c. Account!Free.session = None /\ Account!Free.op = "none"
  BY DEF Account!Free
<1>d. (/\ session' \in {session, accountStored, call.session, None}
       /\ accountStored' \in {accountStored, call.session, None}
       /\ UNCHANGED call \/ call' = Account!Free
       /\ UNCHANGED tokens) => Sessions
  <2> SUFFICES ASSUME session' \in {session, accountStored, call.session, None},
                      accountStored' \in {accountStored, call.session, None},
                      UNCHANGED call \/ call' = Account!Free,
                      UNCHANGED tokens
               PROVE  Sessions
    OBVIOUS
  <2>1. IsSession(None, tokens)
    OBVIOUS
  <2>2. call'.session = call.session \/ call'.session = None
    BY <1>c
  <2> HIDE DEF IsSession
  <2>3. IsSession(session', tokens)
    BY <1>a, <2>1
  <2>4. IsSession(accountStored', tokens)
    BY <1>a, <2>1
  <2>5. IsSession(call'.session, tokens)
    BY <1>a, <2>1, <2>2
  <2> QED
    BY <2>3, <2>4, <2>5
<1>e. ASSUME NEW op \in {"email", "google", "refresh"}, NEW flow, NEW account \in User, NEW old,
             Account!Asks(op, flow, account, old), UNCHANGED <<session, accountStored>>
      PROVE  Sessions /\ Calls
  BY <1>e, <1>a, AsksForSession, TokensGrow
<1> HIDE DEF IsSession, Sessions, Calls
<1>1. CASE UNCHANGED Account!vars
  BY <1>1, <1>0, <1>a, <1>b, <1>d DEF Account!vars
<1>2. ASSUME NEW account \in User, Account!RequestEmailCode(account) PROVE SessionTypes'
  BY <1>2, <1>0, <1>a, <1>b, <1>d DEF Account!RequestEmailCode
<1>3. ASSUME NEW account \in User, Account!VerifyEmailCode(account) PROVE SessionTypes'
  BY <1>3, <1>0, <1>a, <1>e DEF Account!VerifyEmailCode
<1>4. ASSUME NEW account \in User, Account!CompleteGoogleSignIn(account) PROVE SessionTypes'
  <2>1. UNCHANGED <<session, accountStored, email, flows>> /\ google' \in {None, google}
    BY <1>4 DEF Account!CompleteGoogleSignIn
  <2>2. UNCHANGED <<call, good, tokens>> \/ Account!Asks("google", callback, account, {})
    BY <1>4 DEF Account!CompleteGoogleSignIn
  <2> QED
    BY <1>0, <1>a, <1>b, <1>d, <1>e, <2>1, <2>2
<1>5. CASE Account!BeginGoogleSignIn
  <2>1. Rest
    BY <1>5, <1>a DEF Account!BeginGoogleSignIn
  <2> QED
    BY <1>5, <1>0, <1>b, <1>d, <2>1 DEF Account!BeginGoogleSignIn
<1>6. CASE Account!CancelGoogleSignIn
  BY <1>6, <1>0, <1>a, <1>b, <1>d DEF Account!CancelGoogleSignIn
<1>7. ASSUME NEW flow \in 1 .. flows, Account!AcceptDeepLink(flow) PROVE SessionTypes'
  BY <1>7, <1>0, <1>a, <1>b, <1>d DEF Account!AcceptDeepLink
<1>8. CASE Account!Refresh
  <2>1. session # None /\ Account!Asks("refresh", None, session.account, {session.token})
    BY <1>8 DEF Account!Refresh
  <2>2. session.account \in User
    BY <1>a, <2>1 DEF IsSession
  <2>3. UNCHANGED <<session, accountStored, email, google, flows>>
    BY <1>8 DEF Account!Refresh
  <2> QED
    BY <1>0, <1>a, <1>e, <2>1, <2>2, <2>3
<1>9. CASE Account!Answered
  BY <1>9, <1>0, <1>a, <1>b, <1>d DEF Account!Answered
<1>10. CASE Account!Fails
  BY <1>10, <1>0, <1>a, <1>b, <1>d DEF Account!Fails
<1>11. CASE Account!SignOut
  <2>1. good' \subseteq good /\ UNCHANGED <<call, tokens, flows>>
    BY <1>11 DEF Account!SignOut
  <2>2. session' \in {session, None} /\ accountStored' \in {accountStored, None} /\ email' \in {email, None}
        /\ google' \in {google, None}
    BY <1>11 DEF Account!SignOut
  <2>3. Calls
    BY <1>a, <2>1 DEF Calls
  <2>4. Rest
    BY <1>a, <2>1, <2>2
  <2>5. Sessions
    BY <1>d, <2>1, <2>2
  <2> QED
    BY <1>0, <2>3, <2>4, <2>5
<1>12. CASE Account!Lock
  BY <1>12, <1>0, <1>a, <1>b, <1>d DEF Account!Lock
<1>13. CASE Account!Restart
  BY <1>13, <1>0, <1>a, <1>b, <1>d DEF Account!Restart
<1>14. CASE Account!Wait
  BY <1>14, <1>0, <1>a, <1>b, <1>d DEF Account!Wait
<1> QED
  BY <1>1, <1>2, <1>3, <1>4, <1>5, <1>6, <1>7, <1>8, <1>9, <1>10, <1>11, <1>12, <1>13, <1>14 DEF Account!Next

-----------------------------------------------------------------------------
(* Powers of two, which the delays are, counted as subsets of an interval.  *)

\* n numbers have 2^n sets.
LEMMA Subsets ==
  \A n \in Nat : IsFiniteSet(SUBSET (1 .. n)) /\ Cardinality(SUBSET (1 .. n)) = 2^n
<1> TAKE n \in Nat
<1>1. IsFiniteSet(1 .. n) /\ Cardinality(1 .. n) = n
  BY FS_Interval
<1> QED
  BY <1>1, FS_SUBSET

\* The first delay is one second.
LEMMA FirstDelay == 2^0 = 1
  BY SMT

\* Every delay is a number.
LEMMA DelayIsNumber == \A n \in Nat : 2^n \in Nat
  BY Subsets, FS_CardinalityType

\* The next delay is twice the one before it.
LEMMA DelayDoubles == \A n \in Nat : 2^(n+1) = 2 * 2^n
<1> TAKE n \in Nat
<1> DEFINE A == SUBSET (1 .. n)
           B == {s \union {n+1} : s \in A}
           f == [s \in A |-> s \union {n+1}]
<1>1. \A s \in A : n+1 \notin s /\ s \subseteq 1 .. n+1
  BY SMT
<1>2. \A s \in SUBSET (1 .. n+1) : s \in A \/ \E t \in A : s = t \union {n+1}
  <2> SUFFICES ASSUME NEW s \in SUBSET (1 .. n+1), s \notin A PROVE \E t \in A : s = t \union {n+1}
    OBVIOUS
  <2>1. n+1 \in s /\ s \ {n+1} \in A
    BY SMT
  <2> WITNESS s \ {n+1} \in A
  <2> QED
    BY <2>1
<1>3. SUBSET (1 .. n+1) = A \union B
  <2>1. n+1 \in 1 .. n+1
    BY SMT
  <2>2. \A s \in B : s \in SUBSET (1 .. n+1)
    BY <1>1, <2>1
  <2>3. \A s \in A : s \in SUBSET (1 .. n+1)
    BY <1>1
  <2>4. \A s \in SUBSET (1 .. n+1) : s \in A \/ s \in B
    BY <1>2
  <2> HIDE DEF A, B
  <2> QED
    BY <2>2, <2>3, <2>4
<1>4. A \cap B = {}
  BY <1>1
<1>5. IsFiniteSet(A) /\ Cardinality(A) = 2^n
  BY Subsets
<1>6. f \in Bijection(A, B)
  <2>1. f \in [A -> B]
    OBVIOUS
  <2>2. \A s, t \in A : f[s] = f[t] => s = t
    BY <1>1
  <2>3. \A b \in B : \E s \in A : f[s] = b
    OBVIOUS
  <2> HIDE DEF A, B, f
  <2> QED
    BY <2>1, <2>2, <2>3 DEF Bijection, Injection, Surjection, IsInjective
<1> HIDE DEF A, B, f
<1>7. IsFiniteSet(B) /\ Cardinality(B) = Cardinality(A)
  <2>1. ExistsBijection(A, B)
    BY <1>6 DEF ExistsBijection
  <2> QED
    BY <1>5, <2>1, FS_Bijection
<1>8. Cardinality(A \union B) = Cardinality(A) + Cardinality(B) - Cardinality(A \cap B)
  BY <1>5, <1>7, FS_Union
<1>9. Cardinality(A \cap B) = 0
  BY <1>4, FS_EmptySet
<1>10. Cardinality(SUBSET (1 .. n+1)) = 2^(n+1)
  <2>1. n + 1 \in Nat
    OBVIOUS
  <2> QED
    BY <2>1, Subsets
<1>11. 2^n \in Nat
  BY DelayIsNumber
<1>12. Cardinality(A \union B) = 2^n + 2^n
  <2> DEFINE c == Cardinality(A \union B)
             a == Cardinality(A)
             b == Cardinality(B)
             o == Cardinality(A \cap B)
             p == 2^n
  <2>1. c = a + b - o /\ a = p /\ b = a /\ o = 0 /\ p \in Nat
    BY <1>5, <1>7, <1>8, <1>9, <1>11
  <2> HIDE DEF c, a, b, o, p
  <2>2. c = p + p
    BY <2>1
  <2> QED
    BY <2>2 DEF c, p
<1>13. 2^(n+1) = 2^n + 2^n
  BY <1>3, <1>10, <1>12
<1> QED
  <2> DEFINE p == 2^n
             q == 2^(n+1)
  <2>1. q = p + p /\ p \in Nat
    BY <1>13, <1>11
  <2> HIDE DEF p, q
  <2>2. q = 2 * p
    BY <2>1
  <2> QED
    BY <2>2 DEF p, q

-----------------------------------------------------------------------------
(* The PIN's types and delays.                                              *)

PinRecords == {{}} \union {{p} : p \in PinCode}

PinTypes ==
  /\ file \in PinRecords /\ previous \in PinRecords /\ temporary \in PinRecords
  /\ pinLocked \in BOOLEAN /\ running \in BOOLEAN /\ unrestored \in BOOLEAN
  /\ command \in [step : PinSteps, result : PinRecords, resets : BOOLEAN]
  /\ callers \in [Caller -> [phase : {"idle", "asked", "verifying"}, entered : PinCode \union {None},
                             read : PinCode \union {None}]]
  /\ failed \in Nat /\ retryAt \in Int /\ pinNow \in Nat
  /\ holder \in Caller \union {None}
  /\ pinExpected \subseteq PinRecords

\* They are those of the state.
LEMMA PinTypesImply == PinTypes => Pin!TypeOK
<1> SUFFICES ASSUME PinTypes PROVE Pin!TypeOK
  OBVIOUS
<1>1. command.step \in PinSteps
  BY DEF PinTypes
<1> QED
  BY <1>1 DEF PinTypes, PinRecords, PinSteps, Pin!TypeOK, Pin!Record

\* Every step keeps the types.
LEMMA PinTypesNext == PinTypes /\ [Pin!Next]_(Pin!vars) => PinTypes'
<1> SUFFICES ASSUME PinTypes, [Pin!Next]_(Pin!vars) PROVE PinTypes'
  OBVIOUS
<1> USE PinAssumption DEF PinTypes, Pin!NoCommand, PinSteps
<1>a. {} \in PinRecords /\ \A p \in PinCode : {p} \in PinRecords
  BY DEF PinRecords
<1>b. \A f \in PinRecords : \A p \in f : p \in PinCode
  BY DEF PinRecords
<1>c. Pin!Waiting \in [phase : {"idle", "asked", "verifying"}, entered : PinCode \union {None},
                       read : PinCode \union {None}]
  BY DEF Pin!Waiting
<1>1. CASE UNCHANGED Pin!vars
  BY <1>1 DEF Pin!vars, Pin!files, Pin!throttle
<1>2. ASSUME NEW p \in PinCode, Pin!EnablePin(p) PROVE PinTypes'
  BY <1>2, <1>a DEF Pin!EnablePin, Pin!Begin, Pin!throttle
<1>3. ASSUME NEW p \in PinCode, Pin!ChangePin(p) PROVE PinTypes'
  BY <1>3, <1>a DEF Pin!ChangePin, Pin!Begin, Pin!throttle
<1>4. CASE Pin!DisablePin
  BY <1>4, <1>a DEF Pin!DisablePin, Pin!Begin, Pin!files, Pin!throttle
<1>5. CASE Pin!Step
  <2>1. file' \in PinRecords /\ previous' \in PinRecords /\ temporary' \in PinRecords
    BY <1>5, <1>a DEF Pin!Step, Pin!Goes, Pin!Succeeds
  <2>2. command' \in [step : PinSteps, result : PinRecords, resets : BOOLEAN]
    <3>1. command \in [step : PinSteps, result : PinRecords, resets : BOOLEAN] /\ Pin!NoCommand \in [step : PinSteps, result : PinRecords, resets : BOOLEAN]
      BY <1>a
    <3>2. \A s \in PinSteps : [command EXCEPT !.step = s] \in [step : PinSteps, result : PinRecords, resets : BOOLEAN]
      BY <3>1
    <3>3. "aside" \in PinSteps /\ "place" \in PinSteps /\ "tidy" \in PinSteps /\ "dropOld" \in PinSteps
      OBVIOUS
    <3> HIDE DEF PinTypes, PinSteps, Pin!NoCommand
    <3> QED
      BY <1>5, <3>1, <3>2, <3>3 DEF Pin!Step, Pin!Goes, Pin!Succeeds
  <2>3. pinLocked' \in BOOLEAN /\ pinExpected' \subseteq PinRecords
    BY <1>5, <1>a DEF Pin!Step, Pin!Goes, Pin!Succeeds
  <2>4. failed' \in Nat /\ retryAt' \in Int
    BY <1>5 DEF Pin!Step
  <2> QED
    BY <1>5, <2>1, <2>2, <2>3, <2>4 DEF Pin!Step
<1>6. CASE Pin!StepFails
  BY <1>6, <1>a DEF Pin!StepFails, Pin!TakesBack, Pin!files, Pin!throttle
<1>7. CASE Pin!LockApp
  BY <1>7 DEF Pin!LockApp, Pin!files, Pin!throttle
<1>8. ASSUME NEW c \in Caller, NEW p \in PinCode, Pin!UnlockWithPin(c, p) PROVE PinTypes'
  <2>1. ASSUME NEW r \in file
        PROVE [phase |-> "asked", entered |-> p, read |-> r]
                \in [phase : {"idle", "asked", "verifying"}, entered : PinCode \union {None},
                     read : PinCode \union {None}]
    BY <1>b, <2>1
  <2>2. callers' \in [Caller -> [phase : {"idle", "asked", "verifying"}, entered : PinCode \union {None},
                                 read : PinCode \union {None}]]
    <3>1. CASE UNCHANGED callers
      BY <3>1
    <3>2. CASE \E r \in file : callers' = [callers EXCEPT ![c] = [phase |-> "asked", entered |-> p, read |-> r]]
      BY <3>2, <2>1
    <3> QED
      BY <1>8, <3>1, <3>2 DEF Pin!UnlockWithPin
  <2>3. pinLocked' \in BOOLEAN
    BY <1>8 DEF Pin!UnlockWithPin
  <2> QED
    BY <1>8, <2>2, <2>3 DEF Pin!UnlockWithPin, Pin!files, Pin!throttle
<1>9. ASSUME NEW c \in Caller, Pin!CheckDelay(c) PROVE PinTypes'
  BY <1>9, <1>c DEF Pin!CheckDelay, Pin!files
<1>10. ASSUME NEW c \in Caller, Pin!Verify(c) PROVE PinTypes'
  <2>1. Pin!Delay(failed) \in Nat
    <3>1. (IF failed < MaxDelay THEN failed ELSE MaxDelay) \in Nat
      OBVIOUS
    <3> QED
      BY <3>1, DelayIsNumber DEF Pin!Delay
  <2>2. callers' \in [Caller -> [phase : {"idle", "asked", "verifying"}, entered : PinCode \union {None},
                                 read : PinCode \union {None}]]
    BY <1>10, <1>c DEF Pin!Verify
  <2>3. failed' \in Nat /\ retryAt' \in Int /\ pinLocked' \in BOOLEAN /\ holder' \in Caller \union {None}
    <3>1. failed + 1 \in Nat /\ pinNow + Pin!Delay(failed) \in Int
      BY <2>1
    <3>2. holder' = None
      BY <1>10 DEF Pin!Verify
    <3>3. CASE failed' = 0 /\ retryAt' = -1 /\ pinLocked' = FALSE
      <4>1. failed' \in Nat /\ retryAt' \in Int
        BY <3>3
      <4> QED
        BY <3>2, <3>3, <4>1
    <3>4. CASE failed' = failed + 1 /\ retryAt' = pinNow + Pin!Delay(failed) /\ UNCHANGED pinLocked
      BY <3>1, <3>2, <3>4
    <3> QED
      BY <1>10, <3>3, <3>4 DEF Pin!Verify
  <2> QED
    BY <1>10, <2>2, <2>3 DEF Pin!Verify, Pin!files
<1>11. CASE Pin!Stop
  <2>1. callers' \in [Caller -> [phase : {"idle", "asked", "verifying"}, entered : PinCode \union {None},
                                 read : PinCode \union {None}]]
    BY <1>11, <1>c DEF Pin!Stop
  <2>2. command' \in [step : PinSteps, result : PinRecords, resets : BOOLEAN]
    BY <1>11, <1>a DEF Pin!Stop
  <2>3. failed' = 0 /\ retryAt' = -1 /\ holder' = None /\ running' = FALSE
    BY <1>11 DEF Pin!Stop
  <2>4. UNCHANGED <<file, previous, temporary, pinLocked, unrestored, pinNow, pinExpected>>
    BY <1>11 DEF Pin!Stop, Pin!files
  <2>5. failed' \in Nat /\ retryAt' \in Int
    BY <2>3
  <2> QED
    BY <2>1, <2>2, <2>3, <2>4, <2>5
<1>12. CASE Pin!Start
  BY <1>12, <1>a DEF Pin!Start, Pin!Found, Pin!throttle
<1>13. CASE Pin!StartFails
  BY <1>13, <1>a DEF Pin!StartFails, Pin!Found, Pin!throttle
<1>14. CASE Pin!Wait
  BY <1>14 DEF Pin!Wait, Pin!files, Pin!throttle
<1> QED
  BY <1>1, <1>2, <1>3, <1>4, <1>5, <1>6, <1>7, <1>8, <1>9, <1>10, <1>11, <1>12, <1>13, <1>14 DEF Pin!Next

\* One unlock command at a time looks at its PIN, after the delay of the last wrong one; the sum of
\* the delays so far is behind that one's end.
PinTime ==
  /\ \A c \in Caller : callers[c].phase = "verifying" => holder = c /\ retryAt < pinNow
  /\ failed \in 1 .. MaxDelay + 1 => retryAt >= 2^failed - 1
  /\ Pin!WrongPinsTakeTime

\* Without a PIN there are no wrong ones.
LEMMA PinTimeInit == Pin!Init => PinTypes /\ PinTime
<1> SUFFICES ASSUME Pin!Init PROVE PinTypes /\ PinTime
  OBVIOUS
<1>1. callers \in [Caller -> [phase : {"idle", "asked", "verifying"}, entered : PinCode \union {None},
                             read : PinCode \union {None}]]
  BY DEF Pin!Init, Pin!Waiting
<1>2. \A c \in Caller : callers[c].phase # "verifying"
  BY DEF Pin!Init, Pin!Waiting
<1>3. {} \in PinRecords
  BY DEF PinRecords
<1>4. command \in [step : PinSteps, result : PinRecords, resets : BOOLEAN]
  BY <1>3 DEF Pin!Init, Pin!NoCommand, PinSteps
<1>5. PinTypes
  <2>1. failed \in Nat
    BY DEF Pin!Init
  <2>2. retryAt \in Int
    BY DEF Pin!Init
  <2>3. pinNow \in Nat
    BY DEF Pin!Init
  <2>4. holder \in Caller \union {None} /\ {pinLocked, running, unrestored} \subseteq BOOLEAN
    BY DEF Pin!Init
  <2>5. file \in PinRecords /\ previous \in PinRecords /\ temporary \in PinRecords
    BY <1>3 DEF Pin!Init
  <2>6. pinExpected \subseteq PinRecords
    BY <1>3 DEF Pin!Init
  <2> QED
    BY <1>1, <1>4, <2>1, <2>2, <2>3, <2>4, <2>5, <2>6 DEF PinTypes
<1>6. PinTime
  BY <1>2 DEF Pin!Init, PinTime, Pin!WrongPinsTakeTime
<1> QED
  BY <1>5, <1>6

\* Every step preserves it; only a wrong PIN moves the end of the delay on.
LEMMA PinTimeNext == PinTypes /\ PinTime /\ [Pin!Next]_(Pin!vars) => PinTime'
<1> SUFFICES ASSUME PinTypes, PinTime, [Pin!Next]_(Pin!vars) PROVE PinTime'
  OBVIOUS
<1> USE PinAssumption DEF PinTime
<1>t. /\ callers \in [Caller -> [phase : {"idle", "asked", "verifying"}, entered : PinCode \union {None},
                                 read : PinCode \union {None}]]
      /\ failed \in Nat /\ retryAt \in Int /\ pinNow \in Nat
      /\ command.step \in PinSteps
  BY DEF PinTypes
<1>1. CASE UNCHANGED <<callers, Pin!throttle, pinNow>>
  BY <1>1 DEF Pin!throttle, Pin!WrongPinsTakeTime
<1>2. CASE Pin!Step
  <2>1. CASE command'.step = "none" /\ command.resets
    BY <1>2, <2>1, <1>t DEF Pin!Step, Pin!WrongPinsTakeTime
  <2>2. CASE ~(command'.step = "none" /\ command.resets)
    BY <1>2, <2>2, <1>1 DEF Pin!Step, Pin!throttle
  <2> QED
    BY <2>1, <2>2
<1>3. ASSUME NEW c \in Caller, NEW p \in PinCode, Pin!UnlockWithPin(c, p) PROVE PinTime'
  BY <1>3, <1>t DEF Pin!UnlockWithPin, Pin!throttle, Pin!WrongPinsTakeTime
<1>4. ASSUME NEW c \in Caller, Pin!CheckDelay(c) PROVE PinTime'
  BY <1>4, <1>t DEF Pin!CheckDelay, Pin!MayTry, Pin!Waiting, Pin!WrongPinsTakeTime
<1>5. ASSUME NEW c \in Caller, Pin!Verify(c) PROVE PinTime'
  <2>1. \A d \in Caller : callers'[d].phase # "verifying"
    BY <1>5, <1>t DEF Pin!Verify, Pin!Waiting
  <2>2. CASE failed' = 0
    BY <2>1, <2>2 DEF Pin!WrongPinsTakeTime
  <2>3. CASE failed' = failed + 1 /\ retryAt' = pinNow + Pin!Delay(failed) /\ pinNow' = pinNow
    <3>1. retryAt < pinNow
      BY <1>5 DEF Pin!Verify
    <3>2. ASSUME failed \in 0 .. MaxDelay PROVE retryAt' >= 2^(failed + 1) - 1
      <4>1. Pin!Delay(failed) = 2^failed
        BY <3>2, <1>t DEF Pin!Delay
      <4>2. 2^(failed + 1) = 2 * 2^failed /\ 2^failed \in Nat
        BY <1>t, DelayDoubles, DelayIsNumber
      <4>3. pinNow >= 2^failed - 1
        <5>1. CASE failed = 0
          BY <5>1, <1>t, FirstDelay
        <5>2. CASE failed # 0
          <6>1. retryAt >= 2^failed - 1
            BY <5>2, <3>2, <1>t
          <6> QED
            BY <6>1, <3>1, <1>t, <4>2
        <5> QED
          BY <5>1, <5>2
      <4> DEFINE e == 2^failed
                 m == 2^(failed + 1)
      <4>4. retryAt' = pinNow + e /\ m = 2 * e /\ pinNow >= e - 1 /\ e \in Nat
        BY <2>3, <4>1, <4>2, <4>3
      <4> HIDE DEF e, m
      <4>5. retryAt' >= m - 1
        BY <4>4, <1>t
      <4> QED
        BY <4>5 DEF m
    <3>3. ASSUME failed \in 0 .. MaxDelay + 1 PROVE pinNow >= 2^failed - 1
      <4>1. CASE failed = 0
        BY <4>1, <1>t, FirstDelay
      <4>2. CASE failed # 0
        <5>1. retryAt >= 2^failed - 1 /\ 2^failed \in Nat
          BY <4>2, <3>3, <1>t, DelayIsNumber
        <5> QED
          BY <5>1, <3>1, <1>t
      <4> QED
        BY <4>1, <4>2
    <3>4. failed' \in 1 .. MaxDelay + 1 => retryAt' >= 2^failed' - 1
      BY <3>2, <2>3, <1>t
    <3>5. Pin!WrongPinsTakeTime'
      <4>1. failed' - 1 = failed
        BY <2>3, <1>t
      <4>2. failed' \in 1 .. MaxDelay + 2 => failed \in 0 .. MaxDelay + 1
        BY <2>3, <1>t
      <4> QED
        BY <4>1, <4>2, <3>3, <2>3 DEF Pin!WrongPinsTakeTime
    <3> QED
      BY <2>1, <3>4, <3>5
  <2> QED
    BY <1>5, <2>2, <2>3 DEF Pin!Verify
<1>6. CASE Pin!Stop
  BY <1>6 DEF Pin!Stop, Pin!Waiting, Pin!WrongPinsTakeTime
<1>7. CASE Pin!Wait
  <2>1. ASSUME failed \in 1 .. MaxDelay + 2 PROVE pinNow + 1 >= 2^(failed - 1) - 1
    <3>1. failed - 1 \in Nat
      BY <2>1, <1>t
    <3>2. 2^(failed - 1) \in Nat
      BY <3>1, DelayIsNumber
    <3> QED
      BY <2>1, <3>2, <1>t DEF Pin!WrongPinsTakeTime
  <2> QED
    BY <1>7, <1>t, <2>1 DEF Pin!Wait, Pin!throttle, Pin!WrongPinsTakeTime
<1>8. ASSUME NEW p \in PinCode, Pin!EnablePin(p) \/ Pin!ChangePin(p) PROVE UNCHANGED <<callers, Pin!throttle, pinNow>>
  BY <1>8 DEF Pin!EnablePin, Pin!ChangePin, Pin!Begin
<1>9. ASSUME Pin!DisablePin \/ Pin!StepFails \/ Pin!LockApp \/ Pin!Start \/ Pin!StartFails
             \/ UNCHANGED Pin!vars
      PROVE UNCHANGED <<callers, Pin!throttle, pinNow>>
  BY <1>9 DEF Pin!DisablePin, Pin!Begin, Pin!StepFails, Pin!LockApp, Pin!Start, Pin!StartFails, Pin!vars
<1> QED
  BY <1>1, <1>2, <1>3, <1>4, <1>5, <1>6, <1>7, <1>8, <1>9 DEF Pin!Next

\* However many unlock commands are under way at once, n wrong PINs in a row take the sum of the
\* first n - 1 delays: unlock_with_pin of main.rs, which holds the attempts while it verifies.
THEOREM WrongPinsAreSlow == Pin!Spec => []Pin!WrongPinsTakeTime
<1>1. PinTypes /\ PinTime /\ [Pin!Next]_(Pin!vars) => PinTypes' /\ PinTime'
  BY PinTypesNext, PinTimeNext
<1>2. PinTime => Pin!WrongPinsTakeTime
  BY DEF PinTime
<1> QED
  BY PinTimeInit, <1>1, <1>2, PTL DEF Pin!Spec

-----------------------------------------------------------------------------
(* The computers of an account.                                             *)

\* A computer that has secrets has their account key, and a call that sends one has it.
KeysSent ==
  /\ \A c \in Computer : devicesVault[c].device # None => devicesVault[c].key # None
  /\ \A r \in deviceCalls : r.kind \in {"approve", "push"} => r.key # None

DevicesInv == Devices!TypeOK /\ KeysSent

\* An account nobody has connected to.
LEMMA DevicesInit == Devices!Init => DevicesInv
<1> SUFFICES ASSUME Devices!Init PROVE DevicesInv
  OBVIOUS
<1> USE DEF Devices!Init
<1>1. devicesVault \in [Computer -> Devices!Vault] /\ \A c \in Computer : devicesVault[c].device = None
  BY DEF Devices!Vault
<1>2. profile \in [Computer -> Devices!Profile] /\ \A c \in Computer : profile[c].cursor = 0
  BY DEF Devices!Profile
<1>3. devices \in [Device -> Devices!Status]
  BY DEF Devices!Status
<1>4. deviceRows \in Seq(Devices!Row) /\ Len(deviceRows) = 0
  OBVIOUS
<1>5. phrases = {} /\ envelopes = {} /\ deviceCalls = {} /\ devicesRevoked = 0 /\ expired = 0 /\ faults = 0
  OBVIOUS
<1> HIDE DEF Devices!Init
<1> QED
  BY <1>1, <1>2, <1>3, <1>4, <1>5 DEF DevicesInv, KeysSent, Devices!TypeOK

\* What a computer starts is a call.
LEMMA StartsCalls ==
  ASSUME DevicesInv, NEW c \in Computer, NEW kind \in {"register", "approve", "revoke", "push"},
         NEW device \in Device, NEW d \in Device, NEW k \in Device \union {None}, NEW silent \in BOOLEAN,
         kind \in {"approve", "push"} => k # None,
         Devices!Start(c, kind, device, d, k, silent)
  PROVE  deviceCalls' \subseteq Devices!Call /\ \A r \in deviceCalls' : r.kind \in {"approve", "push"} => r.key # None
<1> DEFINE request == [kind |-> kind, step |-> "check", from |-> c, device |-> device, target |-> d, key |-> k,
                    silent |-> silent, awaited |-> TRUE]
<1>1. deviceCalls' = deviceCalls \union {request}
  BY DEF Devices!Start
<1>2. request \in Devices!Call
  BY DEF Devices!Call
<1>3. request.kind = kind /\ request.key = k
  OBVIOUS
<1> HIDE DEF request
<1> QED
  BY <1>1, <1>2, <1>3 DEF DevicesInv, KeysSent, Devices!TypeOK

\* A call that goes on, or that nobody waits for any more, is a call of the same kind and key.
LEMMA CallsGoOn ==
  ASSUME DevicesInv, NEW r \in deviceCalls, deviceCalls' \subseteq Devices!Call,
         \A s \in deviceCalls' : s \in deviceCalls \/ (s.kind = r.kind /\ s.key = r.key)
  PROVE  \A s \in deviceCalls' : s.kind \in {"approve", "push"} => s.key # None
  BY DEF DevicesInv, KeysSent

\* The caller's profile stays one, and its cursor where it was or at the start.
LEMMA AnswersKeepProfiles ==
  ASSUME DevicesInv, NEW r \in deviceCalls, Devices!Answered(r)
  PROVE  profile' \in [Computer -> Devices!Profile] /\ \A c \in Computer : profile'[c].cursor <= profile[c].cursor
<1>1. r \in Devices!Call
  BY DEF DevicesInv, Devices!TypeOK
<1>2. r.from \in Computer /\ r.device \in Device
  BY <1>1 DEF Devices!Call
<1>0. profile \in [Computer -> Devices!Profile]
  BY DEF DevicesInv, Devices!TypeOK
<1>3. \A c \in Computer : profile[c] \in Devices!Profile
  BY <1>0
<1>4. \A c \in Computer : profile[c].cursor \in Nat
  BY <1>3 DEF Devices!Profile
<1>5. CASE profile' = [profile EXCEPT ![r.from].connected = r.device]
  <2> DEFINE p == [profile[r.from] EXCEPT !.connected = r.device]
  <2>1. profile' = [profile EXCEPT ![r.from] = p]
    BY <1>5
  <2>2. p \in Devices!Profile /\ p.cursor = profile[r.from].cursor
    BY <1>2, <1>3 DEF Devices!Profile
  <2> HIDE DEF p
  <2> QED
    BY <2>1, <2>2, <1>0, <1>2, <1>4
<1>6. CASE profile' = [profile EXCEPT ![r.from].connected = None, ![r.from].cursor = 0]
  <2> DEFINE p == [[profile[r.from] EXCEPT !.connected = None] EXCEPT !.cursor = 0]
  <2>1. profile' = [profile EXCEPT ![r.from] = p]
    BY <1>6, <1>2
  <2>2. p \in Devices!Profile /\ p.cursor = 0
    BY <1>2, <1>3 DEF Devices!Profile
  <2> HIDE DEF p
  <2>3. profile' \in [Computer -> Devices!Profile]
    BY <2>1, <2>2, <1>0
  <2>4. profile'[r.from] = p /\ \A c \in Computer \ {r.from} : profile'[c] = profile[c]
    BY <2>1, <1>0, <1>2
  <2>5. ASSUME NEW c \in Computer PROVE profile'[c].cursor <= profile[c].cursor
    <3>1. profile[c].cursor \in Nat
      BY <1>4
    <3>2. CASE c = r.from
      BY <2>2, <2>4, <3>1, <3>2
    <3>3. CASE c # r.from
      BY <2>4, <3>1, <3>3
    <3> QED
      BY <3>2, <3>3
  <2> QED
    BY <2>3, <2>5
<1>7. CASE profile' = profile
  BY <1>0, <1>4, <1>7
<1> QED
  BY <1>5, <1>6, <1>7 DEF Devices!Answered

\* The rows of a page are an interval, so the page ends at one of the log's rows.
LEMMA PagesEndInLog ==
  ASSUME DevicesInv, NEW c \in Computer
  PROVE  Devices!PageEnd(c) \in Nat /\ Devices!PageEnd(c) <= Len(deviceRows)
<1> DEFINE from == profile[c].cursor
           last == IF from + PageSize < Len(deviceRows) THEN from + PageSize ELSE Len(deviceRows)
<1>1. Len(deviceRows) \in Nat /\ PageSize \in Nat
  BY DevicesAssumption DEF DevicesInv, Devices!TypeOK
<1>2. from \in Nat /\ from <= Len(deviceRows)
  <2>1. profile[c] \in Devices!Profile
    BY DEF DevicesInv, Devices!TypeOK
  <2> QED
    BY <2>1 DEF DevicesInv, Devices!TypeOK, Devices!Profile
<1>3. Devices!Page(c) = from + 1 .. last
  BY <1>1, <1>2 DEF Devices!Page
<1> HIDE DEF from
<1>4. last \in Nat /\ from <= last /\ last <= Len(deviceRows)
  BY <1>1, <1>2
<1> HIDE DEF last
<1>5. Cardinality(from + 1 .. last) = IF from + 1 > last THEN 0 ELSE last - (from + 1) + 1
  BY <1>2, <1>4, FS_Interval
<1>6. Devices!Cardinality(from + 1 .. last) = Cardinality(from + 1 .. last)
  BY Zenon DEF Devices!Cardinality, Cardinality
<1>7. Devices!PageEnd(c) = from + Cardinality(from + 1 .. last)
  BY <1>3, <1>6 DEF Devices!PageEnd, from
<1> DEFINE n == Cardinality(from + 1 .. last)
<1>8. n = last - from
  BY <1>2, <1>4, <1>5
<1> HIDE DEF n
<1>9. from + n = last
  BY <1>2, <1>4, <1>8
<1> QED
  BY <1>4, <1>7, <1>9 DEF n

\* Every step of a computer, of the service and of a late call preserves it.
LEMMA DevicesNext == DevicesInv /\ [Devices!Next]_(Devices!vars) => DevicesInv'
<1> SUFFICES ASSUME DevicesInv, [Devices!Next]_(Devices!vars) PROVE DevicesInv'
  OBVIOUS
<1> DEFINE Rest == /\ envelopes' \subseteq Devices!Envelope /\ phrases' \subseteq Device
                   /\ devicesRevoked' \in Nat /\ expired' \in Nat /\ faults' \in Nat
           Vaults == devicesVault' \in [Computer -> Devices!Vault]
                     /\ \A c \in Computer : devicesVault'[c].device # None => devicesVault'[c].key # None
           Calls == deviceCalls' \subseteq Devices!Call
                    /\ \A r \in deviceCalls' : r.kind \in {"approve", "push"} => r.key # None
           Logs == /\ deviceRows' \in Seq(Devices!Row) /\ profile' \in [Computer -> Devices!Profile]
                   /\ \A c \in Computer : profile'[c].cursor <= Len(deviceRows')
           States == devices' \in [Device -> Devices!Status]
<1>0. DevicesInv' <=> Rest /\ Vaults /\ Calls /\ Logs /\ States
  BY DEF DevicesInv, KeysSent, Devices!TypeOK
<1>a. /\ UNCHANGED <<envelopes, phrases, devicesRevoked, expired, faults>> => Rest
      /\ UNCHANGED devicesVault => Vaults
      /\ UNCHANGED deviceCalls => Calls
      /\ UNCHANGED <<deviceRows, profile>> => Logs
      /\ UNCHANGED devices => States
  BY DEF DevicesInv, KeysSent, Devices!TypeOK
<1>b. \A c \in Computer :
        /\ devicesVault[c] \in Devices!Vault
        /\ devicesVault[c].pending \in Device \union {None}
        /\ devicesVault[c].device \in Device \union {None}
        /\ devicesVault[c].key \in Device \union {None}
        /\ devicesVault[c].device # None => devicesVault[c].key # None
  <2> TAKE c \in Computer
  <2>1. devicesVault[c] \in Devices!Vault
    BY DEF DevicesInv, Devices!TypeOK
  <2> QED
    BY <2>1 DEF DevicesInv, KeysSent, Devices!Vault
<1>v. devicesVault \in [Computer -> Devices!Vault]
  BY DEF DevicesInv, Devices!TypeOK
<1>c. \A r \in deviceCalls :
        /\ r \in Devices!Call
        /\ r.from \in Computer /\ r.device \in Device /\ r.target \in Device
        /\ r.key \in Device \union {None}
        /\ r.kind \in {"approve", "push"} => r.key # None
        /\ r.silent \in BOOLEAN
  <2> TAKE r \in deviceCalls
  <2>1. r \in Devices!Call
    BY DEF DevicesInv, Devices!TypeOK
  <2> QED
    BY <2>1 DEF DevicesInv, KeysSent, Devices!Call
<1>d. \A c \in Computer : profile[c] \in Devices!Profile /\ profile[c].cursor \in Nat /\ profile[c].pinned \subseteq Device
  <2> TAKE c \in Computer
  <2>1. profile[c] \in Devices!Profile
    BY DEF DevicesInv, Devices!TypeOK
  <2> QED
    BY <2>1 DEF Devices!Profile
<1>e. \A d \in Devices!NewDevice : d \in Device /\ d # None
  BY DevicesAssumption DEF Devices!NewDevice
<1>f. ASSUME NEW r \in deviceCalls, NEW s \in {"check", "save", "recheck", "write"}, NEW silent \in BOOLEAN,
             deviceCalls' \subseteq deviceCalls \union {[r EXCEPT !.step = s, !.silent = silent]}
      PROVE  Calls
  <2> DEFINE q == [r EXCEPT !.step = s, !.silent = silent]
  <2>1. q \in Devices!Call /\ q.kind = r.kind /\ q.key = r.key
    BY <1>c DEF Devices!Call
  <2> HIDE DEF q
  <2>2. deviceCalls' \subseteq deviceCalls \union {q}
    BY <1>f DEF q
  <2> QED
    BY <2>1, <2>2, <1>c
<1>g. ASSUME NEW r \in deviceCalls, NEW s \in {"check", "save", "recheck", "write", "done"}, Devices!Goes(r, s)
      PROVE  Calls
  <2>1. CASE s = "done"
    BY <1>g, <2>1, <1>c DEF Devices!Goes
  <2>2. CASE s # "done"
    <3>1. [r EXCEPT !.step = s] = [r EXCEPT !.step = s, !.silent = r.silent]
      BY <1>c DEF Devices!Call
    <3>2. deviceCalls' \subseteq deviceCalls \union {[r EXCEPT !.step = s]}
      BY <1>g, <2>2 DEF Devices!Goes
    <3> HIDE DEF Calls
    <3> QED
      BY <1>f, <1>c, <2>2, <3>1, <3>2
  <2> QED
    BY <2>1, <2>2
<1>h. ASSUME NEW r \in deviceCalls, Devices!Ends(r) PROVE Calls
  BY <1>h, <1>c DEF Devices!Ends
<1>i. ASSUME NEW r \in deviceCalls, Devices!Answered(r), UNCHANGED deviceRows PROVE Logs
  <2>1. profile' \in [Computer -> Devices!Profile] /\ \A c \in Computer : profile'[c].cursor <= profile[c].cursor
    BY <1>i, AnswersKeepProfiles
  <2>2. \A c \in Computer : profile'[c].cursor \in Nat
    BY <2>1 DEF Devices!Profile
  <2> QED
    BY <2>1, <2>2, <1>d, <1>i DEF DevicesInv, Devices!TypeOK
<1>1. CASE UNCHANGED Devices!vars
  BY <1>1, <1>0, <1>a DEF Devices!vars
<1>2. ASSUME NEW c \in Computer, Devices!Setup(c) PROVE DevicesInv'
  <2>1. ASSUME NEW d \in Devices!NewDevice, NEW k \in Device, Devices!Keep(c, d, k) PROVE Vaults
    <3> DEFINE v == [[devicesVault[c] EXCEPT !.device = d] EXCEPT !.key = k]
    <3>1. devicesVault' = [devicesVault EXCEPT ![c] = v]
      BY <2>1 DEF Devices!Keep
    <3>2. v \in Devices!Vault /\ v.key = k /\ k # None
      BY <1>b, <1>e, DevicesAssumption DEF Devices!Vault
    <3> HIDE DEF v
    <3> QED
      BY <3>1, <3>2, <1>b, <1>v
  <2>2. ASSUME NEW d \in Devices!NewDevice, devicesVault' = [devicesVault EXCEPT ![c].pending = d] PROVE Vaults
    <3> DEFINE v == [devicesVault[c] EXCEPT !.pending = d]
    <3>1. devicesVault' = [devicesVault EXCEPT ![c] = v]
      BY <2>2
    <3>2. v \in Devices!Vault /\ v.device = devicesVault[c].device /\ v.key = devicesVault[c].key
      BY <1>b, <1>e DEF Devices!Vault
    <3> HIDE DEF v
    <3> QED
      BY <3>1, <3>2, <1>b, <1>v
  <2>3. phrases' \subseteq Device => Rest
    BY <1>2, <1>a DEF Devices!Setup, Devices!Protect, Devices!Recover, Devices!MakePending, DevicesInv, Devices!TypeOK
  <2>4. phrases' \subseteq Device
    BY <1>2, <1>e DEF Devices!Setup, Devices!Protect, Devices!Recover, Devices!MakePending, DevicesInv, Devices!TypeOK
  <2>5. UNCHANGED <<profile, devices, deviceRows, deviceCalls>>
    BY <1>2 DEF Devices!Setup, Devices!Protect, Devices!Recover, Devices!MakePending
  <2>6. Vaults
    <3> HIDE DEF Vaults
    <3>1. phrases \subseteq Device
      BY DEF DevicesInv, Devices!TypeOK
    <3> QED
      BY <1>2, <2>1, <2>2, <1>e, <3>1 DEF Devices!Setup, Devices!Protect, Devices!Recover, Devices!MakePending
  <2> HIDE DEF Rest, Vaults, Calls, Logs, States
  <2> QED
    BY <1>0, <1>a, <2>3, <2>4, <2>5, <2>6
<1>3. ASSUME NEW c \in Computer, Devices!CheckApproval(c) PROVE DevicesInv'
  <2>1. PICK e \in Devices!Adoptable(c) :
          /\ devicesVault' = [devicesVault EXCEPT ![c] = [pending |-> None, device |-> e.target, key |-> e.key]]
          /\ envelopes' \in {envelopes, envelopes \ {e}}
    BY <1>3 DEF Devices!CheckApproval
  <2>2. e \in envelopes /\ envelopes \subseteq Devices!Envelope
    BY DEF Devices!Adoptable, DevicesInv, Devices!TypeOK
  <2>3. e.target \in Device /\ e.key \in Device
    BY <2>2 DEF Devices!Envelope
  <2> DEFINE v == [pending |-> None, device |-> e.target, key |-> e.key]
  <2>4. v \in Devices!Vault /\ v.key # None
    BY <2>3, DevicesAssumption DEF Devices!Vault
  <2>5. Vaults
    <3> HIDE DEF v
    <3>1. devicesVault' = [devicesVault EXCEPT ![c] = v]
      BY <2>1 DEF v
    <3> QED
      BY <3>1, <2>4, <1>b, <1>v
  <2>6. UNCHANGED <<profile, phrases, devices, deviceRows, deviceCalls, devicesRevoked, expired, faults>>
    BY <1>3 DEF Devices!CheckApproval
  <2>7. Rest
    BY <2>1, <2>2, <2>6 DEF DevicesInv, Devices!TypeOK
  <2> HIDE DEF Rest, Vaults, Calls, Logs, States
  <2> QED
    BY <1>0, <1>a, <2>5, <2>6, <2>7
<1>4. ASSUME NEW c \in Computer, Devices!RequestApproval(c) \/ Devices!Connect(c) \/ Devices!Push(c) PROVE DevicesInv'
  <2>1. Calls
    <3>1. CASE Devices!RequestApproval(c)
      BY <1>b, <3>1, StartsCalls DEF Devices!RequestApproval
    <3>2. CASE Devices!Connect(c)
      BY <1>b, <3>2, StartsCalls DEF Devices!Connect, Devices!Protected
    <3>3. CASE Devices!Push(c)
      BY <1>b, <3>3, StartsCalls DEF Devices!Push, Devices!Connected, Devices!Protected
    <3> QED
      BY <1>4, <3>1, <3>2, <3>3
  <2>2. UNCHANGED <<devicesVault, profile, phrases, devices, envelopes, deviceRows, devicesRevoked, expired, faults>>
    BY <1>4 DEF Devices!RequestApproval, Devices!Connect, Devices!Push
  <2> HIDE DEF Rest, Vaults, Calls, Logs, States
  <2> QED
    BY <1>0, <1>a, <2>1, <2>2
<1>5. ASSUME NEW c \in Computer, NEW d \in Device, Devices!Approve(c, d) \/ Devices!Revoke(c, d) PROVE DevicesInv'
  <2>1. Calls
    <3>1. CASE Devices!Approve(c, d)
      BY <1>b, <3>1, StartsCalls DEF Devices!Approve, Devices!Protected
    <3>2. CASE Devices!Revoke(c, d)
      BY <1>b, <3>2, StartsCalls DEF Devices!Revoke, Devices!Protected
    <3> QED
      BY <1>5, <3>1, <3>2
  <2>2. UNCHANGED <<devicesVault, profile, phrases, devices, envelopes, deviceRows, expired, faults>>
    BY <1>5 DEF Devices!Approve, Devices!Revoke
  <2>3. devicesRevoked' \in Nat
    <3>1. devicesRevoked \in Nat
      BY DEF DevicesInv, Devices!TypeOK
    <3> QED
      <4>1. devicesRevoked' = devicesRevoked \/ devicesRevoked' = devicesRevoked + 1
        BY <1>5 DEF Devices!Approve, Devices!Revoke
      <4> QED
        BY <3>1, <4>1
  <2>4. Rest
    BY <2>2, <2>3 DEF DevicesInv, Devices!TypeOK
  <2> HIDE DEF Rest, Vaults, Calls, Logs, States
  <2> QED
    BY <1>0, <1>a, <2>1, <2>2, <2>4
<1>6. ASSUME NEW c \in Computer, Devices!PinPeers(c) PROVE DevicesInv'
  <2>1. profile' = [profile EXCEPT ![c].pinned = profile[c].pinned \union Devices!Peers(c)]
    BY <1>6 DEF Devices!PinPeers
  <2>2. profile[c].pinned \union Devices!Peers(c) \subseteq Device
    BY <1>d DEF Devices!Peers
  <2>3. UNCHANGED <<devicesVault, phrases, devices, envelopes, deviceRows, deviceCalls, devicesRevoked, expired, faults>>
    BY <1>6 DEF Devices!PinPeers
  <2>4. Logs
    <3> DEFINE p == [profile[c] EXCEPT !.pinned = profile[c].pinned \union Devices!Peers(c)]
    <3>1. p \in Devices!Profile /\ p.cursor = profile[c].cursor
      BY <1>d, <2>2 DEF Devices!Profile
    <3>2. profile' = [profile EXCEPT ![c] = p]
      BY <2>1
    <3> HIDE DEF p
    <3> QED
      BY <3>1, <3>2, <2>3 DEF DevicesInv, Devices!TypeOK
  <2> HIDE DEF Rest, Vaults, Calls, Logs, States
  <2> QED
    BY <1>0, <1>a, <2>3, <2>4
<1>7. ASSUME NEW c \in Computer, Devices!PullPage(c) PROVE DevicesInv'
  <2>1. profile' = [profile EXCEPT ![c].cursor = Devices!PageEnd(c)]
    BY <1>7 DEF Devices!PullPage
  <2>2. Devices!PageEnd(c) \in Nat /\ Devices!PageEnd(c) <= Len(deviceRows)
    BY PagesEndInLog
  <2>3. UNCHANGED <<devicesVault, phrases, devices, envelopes, deviceRows, deviceCalls, devicesRevoked, expired, faults>>
    BY <1>7 DEF Devices!PullPage
  <2>4. Logs
    <3> DEFINE p == [profile[c] EXCEPT !.cursor = Devices!PageEnd(c)]
    <3>1. p \in Devices!Profile /\ p.cursor = Devices!PageEnd(c)
      BY <1>d, <2>2 DEF Devices!Profile
    <3>2. profile' = [profile EXCEPT ![c] = p]
      BY <2>1
    <3> HIDE DEF p
    <3> QED
      BY <3>1, <3>2, <2>2, <2>3 DEF DevicesInv, Devices!TypeOK
  <2> HIDE DEF Rest, Vaults, Calls, Logs, States
  <2> QED
    BY <1>0, <1>a, <2>3, <2>4
<1>8. ASSUME NEW r \in deviceCalls, Devices!RegisterCheck(r) \/ Devices!RegisterWrite(r) \/ Devices!RevokeWrite(r)
      PROVE  DevicesInv'
  <2>1. UNCHANGED <<devicesVault, phrases, envelopes, deviceRows, devicesRevoked, expired, faults>>
    BY <1>8 DEF Devices!RegisterCheck, Devices!RegisterWrite, Devices!RevokeWrite
  <2>2. Logs
    <3> HIDE DEF Logs
    <3>1. Devices!Answered(r) \/ UNCHANGED profile
      BY <1>8 DEF Devices!RegisterCheck, Devices!RegisterWrite, Devices!RevokeWrite
    <3> QED
      BY <3>1, <2>1, <1>i, <1>a
  <2>3. States
    BY <1>8 DEF Devices!RegisterCheck, Devices!RegisterWrite, Devices!RevokeWrite, DevicesInv, Devices!TypeOK, Devices!Status
  <2>4. Calls
    <3> HIDE DEF Calls
    <3>1. CASE Devices!Ends(r)
      BY <3>1, <1>h
    <3>2. CASE ~Devices!Ends(r)
      <4> DEFINE z == r.silent /\ Devices!Surviving = {}
      <4>1. deviceCalls' = (deviceCalls \ {r}) \union {[r EXCEPT !.step = "write", !.silent = z]}
        BY <1>8, <3>2, <1>c DEF Devices!RegisterCheck, Devices!RegisterWrite, Devices!RevokeWrite
      <4>2. z \in BOOLEAN
        OBVIOUS
      <4> HIDE DEF z
      <4>3. deviceCalls' \subseteq deviceCalls \union {[r EXCEPT !.step = "write", !.silent = z]}
        BY <4>1
      <4> QED
        BY <4>2, <4>3, <1>f
    <3> QED
      BY <3>1, <3>2
  <2> HIDE DEF Rest, Vaults, Calls, Logs, States
  <2> QED
    BY <1>0, <1>a, <2>1, <2>2, <2>3, <2>4
<1>9. ASSUME NEW r \in deviceCalls, Devices!ApproveCheck(r) \/ Devices!ApproveRecheck(r) \/ Devices!RevokeCheck(r)
                                    \/ Devices!PushCheck(r)
      PROVE  DevicesInv'
  <2>1. UNCHANGED <<devicesVault, profile, phrases, devices, envelopes, deviceRows, devicesRevoked, expired, faults>>
    BY <1>9 DEF Devices!ApproveCheck, Devices!ApproveRecheck, Devices!RevokeCheck, Devices!PushCheck
  <2>2. Devices!Ends(r) \/ \E s \in {"check", "save", "recheck", "write", "done"} : Devices!Goes(r, s)
    BY <1>9 DEF Devices!ApproveCheck, Devices!ApproveRecheck, Devices!RevokeCheck, Devices!PushCheck,
                Devices!ApproveFollows
  <2> HIDE DEF Rest, Vaults, Calls, Logs, States
  <2> QED
    BY <1>0, <1>a, <1>g, <1>h, <2>1, <2>2
<1>10. ASSUME NEW r \in deviceCalls, Devices!ApproveSave(r) PROVE DevicesInv'
  <2>1. UNCHANGED <<devicesVault, profile, phrases, devices, deviceRows, devicesRevoked, expired, faults>>
    BY <1>10 DEF Devices!ApproveSave
  <2>2. r.key \in Device
    BY <1>10, <1>c DEF Devices!ApproveSave
  <2>3. [sender |-> r.device, target |-> r.target, key |-> r.key] \in Devices!Envelope
    BY <2>2, <1>c DEF Devices!Envelope
  <2>4. Rest
    BY <1>10, <2>1, <2>3 DEF Devices!ApproveSave, DevicesInv, Devices!TypeOK
  <2>5. Devices!Goes(r, "recheck")
    BY <1>10 DEF Devices!ApproveSave, Devices!ApproveFollows
  <2> HIDE DEF Rest, Vaults, Calls, Logs, States
  <2> QED
    BY <1>0, <1>a, <1>g, <2>1, <2>4, <2>5
<1>11. ASSUME NEW r \in deviceCalls, Devices!ApproveWrite(r) PROVE DevicesInv'
  <2>1. UNCHANGED <<devicesVault, profile, phrases, envelopes, deviceRows, devicesRevoked, expired, faults>>
    BY <1>11 DEF Devices!ApproveWrite
  <2>2. States
    BY <1>11 DEF Devices!ApproveWrite, Devices!Patched, DevicesInv, Devices!TypeOK, Devices!Status
  <2>3. Devices!Goes(r, "done")
    BY <1>11 DEF Devices!ApproveWrite, Devices!ApproveFollows
  <2> HIDE DEF Rest, Vaults, Calls, Logs, States
  <2> QED
    BY <1>0, <1>a, <1>g, <2>1, <2>2, <2>3
<1>12. ASSUME NEW r \in deviceCalls, Devices!PushWrite(r) PROVE DevicesInv'
  <2>1. UNCHANGED <<devicesVault, profile, phrases, devices, envelopes, devicesRevoked, expired, faults>>
    BY <1>12 DEF Devices!PushWrite
  <2>2. r.key \in Device
    BY <1>12, <1>c DEF Devices!PushWrite
  <2>3. [author |-> r.device, key |-> r.key] \in Devices!Row
    BY <2>2, <1>c DEF Devices!Row
  <2>4. deviceRows \in Seq(Devices!Row)
    BY DEF DevicesInv, Devices!TypeOK
  <2>5. deviceRows' \in Seq(Devices!Row) /\ Len(deviceRows) <= Len(deviceRows')
    BY <1>12, <2>3, <2>4 DEF Devices!PushWrite
  <2>6. Logs
    <3>1. Len(deviceRows) \in Nat /\ Len(deviceRows') \in Nat
      BY <2>4, <2>5
    <3> QED
      BY <2>1, <2>5, <3>1, <1>d DEF DevicesInv, Devices!TypeOK
  <2>7. Devices!Ends(r)
    BY <1>12 DEF Devices!PushWrite
  <2> HIDE DEF Rest, Vaults, Calls, Logs, States
  <2> QED
    BY <1>0, <1>a, <1>h, <2>1, <2>6, <2>7
<1>13. ASSUME NEW r \in deviceCalls, Devices!GiveUp(r) PROVE DevicesInv'
  <2>1. UNCHANGED <<devicesVault, profile, phrases, devices, envelopes, deviceRows, devicesRevoked, expired>>
        /\ faults' = faults + 1
    BY <1>13 DEF Devices!GiveUp
  <2>2. Rest
    BY <2>1 DEF DevicesInv, Devices!TypeOK
  <2> DEFINE q == [r EXCEPT !.awaited = FALSE]
  <2>3. q \in Devices!Call /\ q.kind = r.kind /\ q.key = r.key
    BY <1>c DEF Devices!Call
  <2>4. deviceCalls' = (deviceCalls \ {r}) \union {q}
    BY <1>13 DEF Devices!GiveUp
  <2> HIDE DEF q
  <2>5. Calls
    BY <2>3, <2>4, <1>c
  <2> HIDE DEF Rest, Vaults, Calls, Logs, States
  <2> QED
    BY <1>0, <1>a, <2>1, <2>2, <2>5
<1>14. ASSUME NEW r \in deviceCalls, Devices!Stop(r) PROVE DevicesInv'
  <2>1. UNCHANGED <<devicesVault, profile, phrases, devices, envelopes, deviceRows, devicesRevoked, expired, faults>>
    BY <1>14 DEF Devices!Stop
  <2>2. Devices!Ends(r)
    BY <1>14 DEF Devices!Stop, Devices!Ends
  <2> HIDE DEF Rest, Vaults, Calls, Logs, States
  <2> QED
    BY <1>0, <1>a, <1>h, <2>1, <2>2
<1>15. ASSUME Devices!Expire PROVE DevicesInv'
  <2>1. UNCHANGED <<devicesVault, profile, phrases, devices, deviceRows, deviceCalls, devicesRevoked, faults>>
        /\ expired' = expired + 1 /\ envelopes' \subseteq envelopes
    BY <1>15 DEF Devices!Expire
  <2>2. Rest
    BY <2>1 DEF DevicesInv, Devices!TypeOK
  <2> HIDE DEF Rest, Vaults, Calls, Logs, States
  <2> QED
    BY <1>0, <1>a, <2>1, <2>2
<1> QED
  BY <1>1, <1>2, <1>3, <1>4, <1>5, <1>6, <1>7, <1>8, <1>9, <1>10, <1>11, <1>12, <1>13, <1>14, <1>15
     DEF Devices!Next, Devices!Join, Devices!Serve

\* A device that is revoked stays so, whichever call is late, and the log grows only by rows of
\* devices that are authorized at that moment.
LEMMA RevocationSteps ==
  ASSUME DevicesInv, [Devices!Next]_(Devices!vars)
  PROVE  /\ \A d \in Device : devices[d] = "revoked" => devices'[d] = "revoked"
         /\ \A i \in 1 .. Len(deviceRows') : i > Len(deviceRows) => Devices!Authorized(deviceRows'[i].author)
<1>1. devices \in [Device -> Devices!Status] /\ deviceRows \in Seq(Devices!Row)
  BY DEF DevicesInv, Devices!TypeOK
<1>2. UNCHANGED devices
      \/ \E r \in deviceCalls : Devices!RegisterWrite(r) \/ Devices!ApproveWrite(r) \/ Devices!RevokeWrite(r)
  BY DEF Devices!Next, Devices!vars, Devices!Setup, Devices!Join, Devices!Serve, Devices!Protect, Devices!Recover,
         Devices!MakePending, Devices!RequestApproval, Devices!CheckApproval, Devices!Connect, Devices!Push,
         Devices!PinPeers, Devices!PullPage, Devices!Approve, Devices!Revoke, Devices!RegisterCheck,
         Devices!ApproveCheck, Devices!ApproveSave, Devices!ApproveRecheck, Devices!RevokeCheck, Devices!PushCheck,
         Devices!PushWrite, Devices!GiveUp, Devices!Stop, Devices!Expire
<1>3. UNCHANGED deviceRows \/ \E r \in deviceCalls : Devices!PushWrite(r)
  BY DEF Devices!Next, Devices!vars, Devices!Setup, Devices!Join, Devices!Serve, Devices!Protect, Devices!Recover,
         Devices!MakePending, Devices!RequestApproval, Devices!CheckApproval, Devices!Connect, Devices!Push,
         Devices!PinPeers, Devices!PullPage, Devices!Approve, Devices!Revoke, Devices!RegisterCheck,
         Devices!RegisterWrite, Devices!ApproveCheck, Devices!ApproveSave, Devices!ApproveRecheck,
         Devices!ApproveWrite, Devices!RevokeCheck, Devices!RevokeWrite, Devices!PushCheck, Devices!GiveUp,
         Devices!Stop, Devices!Expire
<1>4. \A d \in Device : devices[d] = "revoked" => devices'[d] = "revoked"
  BY <1>1, <1>2 DEF Devices!RegisterWrite, Devices!ApproveWrite, Devices!RevokeWrite, Devices!Patched
<1>5. \A i \in 1 .. Len(deviceRows') : i > Len(deviceRows) => Devices!Authorized(deviceRows'[i].author)
  <2>1. CASE UNCHANGED deviceRows
    BY <1>1, <2>1
  <2>2. ASSUME NEW r \in deviceCalls, Devices!PushWrite(r)
        PROVE  \A i \in 1 .. Len(deviceRows') : i > Len(deviceRows) => Devices!Authorized(deviceRows'[i].author)
    <3>1. CASE deviceRows' = deviceRows
      BY <1>1, <3>1
    <3>2. CASE deviceRows' # deviceRows
      <4> DEFINE row == [author |-> r.device, key |-> r.key]
      <4>1. deviceRows' = Append(deviceRows, row) /\ Devices!Authorized(r.device)
        BY <2>2, <3>2 DEF Devices!PushWrite, Devices!PolicyAdmits
      <4>2. row.author = r.device
        OBVIOUS
      <4> HIDE DEF row
      <4>3. \A i \in 1 .. Len(deviceRows') : i > Len(deviceRows) => deviceRows'[i] = row
        BY <1>1, <4>1
      <4> QED
        BY <4>1, <4>2, <4>3
    <3> QED
      BY <3>1, <3>2
  <2> QED
    BY <1>3, <2>1, <2>2
<1> QED
  BY <1>4, <1>5

\* "Approval must never resurrect a revoked device" (sync-repository.ts:140), and the insert policy
\* admits none.
THEOREM RevocationsHold == Devices!Spec => Devices!ApprovalNeverResurrects /\ Devices!AppendedByAuthorized
<1>1. Devices!Spec => []DevicesInv
  BY DevicesInit, DevicesNext, PTL DEF Devices!Spec
<1>2. DevicesInv /\ [Devices!Next]_(Devices!vars) =>
        /\ [\A d \in Device : devices[d] = "revoked" => devices'[d] = "revoked"]_(Devices!vars)
        /\ [\A i \in 1 .. Len(deviceRows') : i > Len(deviceRows) => Devices!Authorized(deviceRows'[i].author)]_(Devices!vars)
  BY RevocationSteps
<1> QED
  BY <1>1, <1>2, PTL DEF Devices!Spec, Devices!ApprovalNeverResurrects, Devices!AppendedByAuthorized

-----------------------------------------------------------------------------
(* Canvas connections.  What a refresh leaves visible to the others: its    *)
(* connection is marked, or disconnected, until it ends.                    *)

CanvasTypes ==
  /\ connects \in Nat
  /\ canvasCredential \in [Connection -> 0 .. connects]
  /\ status \in [Connection -> {None, "syncing", "connected", "error", "needs_reauthentication", "disconnected"}]
  /\ refresh \in [Process -> [phase : {"idle", "begun", "asking"}, connection : Connection \union {None},
                              credential : 0 .. connects]]
  /\ \A p \in Process : refresh[p].connection # None => refresh[p].phase # "idle"
  /\ \A p \in Process : refresh[p].phase # "idle" => refresh[p].connection \in Connection

\* A connection that is refreshed is not free to be, unless it was connected again.
Marked ==
  \A p \in Process : refresh[p].connection \in Connection \ contested =>
    status[refresh[p].connection] \in {"syncing", "disconnected"}

OneProcess ==
  \A p, q \in Process :
    refresh[p].connection \in Connection \ contested /\ refresh[q].connection = refresh[p].connection => p = q

AsksWithStored == \A p \in Process : refresh[p].phase = "asking" => refresh[p].credential \in 1 .. connects

CanvasInv == CanvasTypes /\ Marked /\ OneProcess /\ AsksWithStored

\* Counting is the same in every part.
LEMMA CanvasCounts == \A S : Canvas!Cardinality(S) = Cardinality(S)
  BY Zenon DEF Canvas!Cardinality, Cardinality

\* The processes that refresh a connection are one at most.
LEMMA CanvasImplies == CanvasInv => Canvas!OneRefreshAtATime
<1> SUFFICES ASSUME CanvasInv PROVE Canvas!OneRefreshAtATime
  OBVIOUS
<1>1. ASSUME NEW c \in Connection \ contested PROVE Canvas!Cardinality(Canvas!Refreshing(c)) <= 1
  <2>1. CASE Canvas!Refreshing(c) = {}
    BY <2>1, FS_EmptySet, CanvasCounts
  <2>2. CASE Canvas!Refreshing(c) # {}
    <3>1. PICK p \in Process : refresh[p].connection = c
      BY <2>2 DEF Canvas!Refreshing
    <3>2. Canvas!Refreshing(c) = {p}
      BY <1>1, <3>1 DEF Canvas!Refreshing, CanvasInv, OneProcess
    <3> QED
      BY <3>2, FS_Singleton, CanvasCounts
  <2> QED
    BY <2>1, <2>2
<1> QED
  BY <1>1 DEF Canvas!OneRefreshAtATime, CanvasInv, AsksWithStored

\* No connection and no refresh satisfy it.
LEMMA CanvasInit == Canvas!Init => CanvasInv
  BY CanvasAssumption DEF Canvas!Init, Canvas!Idle, CanvasInv, CanvasTypes, Marked, OneProcess, AsksWithStored

\* Every step of a refresh, of the student and of the server preserves it.
LEMMA CanvasNext == CanvasInv /\ [Canvas!Next]_(Canvas!vars) => CanvasInv'
<1> SUFFICES ASSUME CanvasInv, [Canvas!Next]_(Canvas!vars) PROVE CanvasInv'
  OBVIOUS
<1> USE CanvasAssumption DEF CanvasInv, CanvasTypes, Marked, OneProcess, AsksWithStored
<1>1. CASE UNCHANGED Canvas!vars
  BY <1>1 DEF Canvas!vars
<1>2. ASSUME NEW c \in Connection, Canvas!Connect(c) PROVE CanvasInv'
  <2>1. ASSUME NEW p \in Process, refresh[p].connection = c PROVE c \in contested'
    BY <1>2, <2>1 DEF Canvas!Connect, Canvas!Refreshing
  <2>2. connects' \in Nat /\ connects <= connects' /\ 0 .. connects \subseteq 0 .. connects'
    BY <1>2 DEF Canvas!Connect
  <2>3. CanvasTypes'
    BY <1>2, <2>2 DEF Canvas!Connect
  <2>4. contested \subseteq contested'
    BY <1>2 DEF Canvas!Connect
  <2>5. Marked' /\ OneProcess'
    BY <1>2, <2>1, <2>4 DEF Canvas!Connect
  <2>6. AsksWithStored'
    BY <1>2, <2>2 DEF Canvas!Connect
  <2> QED
    BY <2>3, <2>5, <2>6
<1>3. ASSUME NEW p \in Process, NEW c \in Connection, Canvas!Begin(p, c) PROVE CanvasInv'
  <2>1. ASSUME NEW q \in Process, refresh[q].connection = c PROVE c \in contested
    BY <1>3, <2>1 DEF Canvas!Begin, Canvas!Marks
  <2>2. refresh' = [refresh EXCEPT ![p] = [phase |-> "begun", connection |-> c, credential |-> 0]]
    BY <1>3 DEF Canvas!Begin, Canvas!Marks
  <2>3. CanvasTypes'
    BY <1>3 DEF Canvas!Begin, Canvas!Marks
  <2>4. Marked'
    BY <1>3, <2>2 DEF Canvas!Begin, Canvas!Marks
  <2>5. OneProcess'
    BY <1>3, <2>1, <2>2 DEF Canvas!Begin, Canvas!Marks
  <2>6. AsksWithStored'
    BY <1>3, <2>2 DEF Canvas!Begin, Canvas!Marks
  <2> QED
    BY <2>3, <2>4, <2>5, <2>6
<1>4. ASSUME NEW p \in Process, Canvas!ReadCredential(p) PROVE CanvasInv'
  <2> DEFINE c == refresh[p].connection
  <2>1. CASE refresh' = [refresh EXCEPT ![p].phase = "asking", ![p].credential = canvasCredential[c]] /\ canvasCredential[c] # 0
             /\ UNCHANGED status
    BY <1>4, <2>1 DEF Canvas!ReadCredential
  <2>2. CASE refresh' = [refresh EXCEPT ![p] = Canvas!Idle] /\ UNCHANGED status
    BY <1>4, <2>2 DEF Canvas!ReadCredential, Canvas!Idle
  <2>3. CASE refresh' = [refresh EXCEPT ![p] = Canvas!Idle] /\ Canvas!FailRun(c, "needs_reauthentication")
    BY <1>4, <2>3 DEF Canvas!ReadCredential, Canvas!Idle, Canvas!FailRun
  <2> QED
    BY <1>4, <2>1, <2>2, <2>3 DEF Canvas!ReadCredential
<1>5. ASSUME NEW p \in Process, Canvas!PersistPull(p) PROVE CanvasInv'
  BY <1>5 DEF Canvas!PersistPull, Canvas!Done, Canvas!Idle
<1>6. ASSUME NEW p \in Process, Canvas!Unauthorized(p) PROVE CanvasInv'
  BY <1>6 DEF Canvas!Unauthorized, Canvas!FailRun, Canvas!Done, Canvas!Idle
<1>7. ASSUME NEW p \in Process, Canvas!RefreshFails(p) PROVE CanvasInv'
  BY <1>7 DEF Canvas!RefreshFails, Canvas!FailRun, Canvas!Done, Canvas!Idle
<1>8. ASSUME NEW c \in Connection, Canvas!Disconnect(c) PROVE CanvasInv'
  BY <1>8 DEF Canvas!Disconnect
<1>9. ASSUME NEW n \in 1 .. MaxConnects, Canvas!Revoke(n) PROVE CanvasInv'
  BY <1>9 DEF Canvas!Revoke
<1>10. CASE Canvas!DayGoesBy
  BY <1>10 DEF Canvas!DayGoesBy
<1>11. CASE Canvas!Stop
  BY <1>11 DEF Canvas!Stop, Canvas!Idle
<1>12. CASE Canvas!ListDue \/ \E c \in listed : Canvas!PassOver(c)
  BY <1>12 DEF Canvas!ListDue, Canvas!PassOver
<1> QED
  BY <1>1, <1>2, <1>3, <1>4, <1>5, <1>6, <1>7, <1>8, <1>9, <1>10, <1>11, <1>12 DEF Canvas!Next

\* The hourly thread and the student never refresh a connection at the same time, unless it was
\* connected again meanwhile, and ask with what was stored for it.
THEOREM RefreshesAreSingle == Canvas!Spec => []Canvas!OneRefreshAtATime
<1>1. Canvas!Init => CanvasInv
  BY CanvasInit
<1>2. CanvasInv /\ [Canvas!Next]_(Canvas!vars) => CanvasInv'
  BY CanvasNext
<1>3. CanvasInv => Canvas!OneRefreshAtATime
  BY CanvasImplies
<1> QED
  BY <1>1, <1>2, <1>3, PTL DEF Canvas!Spec
\* What its types leave open.
CanvasBounds ==
  /\ connects <= MaxConnects
  /\ due \subseteq Connection /\ listed \subseteq Connection /\ contested \subseteq Connection

\* The types of the state follow.
LEMMA CanvasTypesImply == CanvasInv /\ CanvasBounds => Canvas!TypeOK
<1> SUFFICES ASSUME CanvasInv, CanvasBounds PROVE Canvas!TypeOK
  OBVIOUS
<1>1. 0 .. connects \subseteq 0 .. MaxConnects
  BY CanvasAssumption DEF CanvasInv, CanvasTypes, CanvasBounds
<1> QED
  BY <1>1 DEF CanvasInv, CanvasTypes, CanvasBounds, Canvas!TypeOK

\* Nothing is connected at first.
LEMMA CanvasBoundsInit == Canvas!Init => CanvasBounds
  BY CanvasAssumption DEF Canvas!Init, CanvasBounds

\* Every step keeps them.
LEMMA CanvasBoundsNext == CanvasInv /\ CanvasBounds /\ [Canvas!Next]_(Canvas!vars) => CanvasBounds'
<1> SUFFICES ASSUME CanvasInv, CanvasBounds, [Canvas!Next]_(Canvas!vars) PROVE CanvasBounds'
  OBVIOUS
<1> USE DEF CanvasBounds
<1>1. connects \in Nat
  BY DEF CanvasInv, CanvasTypes
<1>2. ASSUME NEW c \in Connection, Canvas!Connect(c) PROVE CanvasBounds'
  BY <1>1, <1>2, CanvasAssumption DEF Canvas!Connect
<1>3. ASSUME NEW p \in Process, Canvas!PersistPull(p) PROVE CanvasBounds'
  BY <1>3 DEF Canvas!PersistPull, Canvas!Done
<1>4. CASE Canvas!DayGoesBy
  BY <1>4 DEF Canvas!DayGoesBy
<1>5. CASE Canvas!Stop
  BY <1>5 DEF Canvas!Stop
<1>6. CASE UNCHANGED <<connects, due, contested>> /\ listed' \subseteq listed
  BY <1>6
<1>7. CASE Canvas!ListDue
  BY <1>7 DEF Canvas!ListDue
<1> QED
  BY <1>2, <1>3, <1>4, <1>5, <1>6, <1>7
     DEF Canvas!Next, Canvas!vars, Canvas!Begin, Canvas!Marks, Canvas!PassOver, Canvas!ReadCredential, Canvas!Unauthorized, Canvas!Done,
         Canvas!RefreshFails, Canvas!Disconnect, Canvas!Revoke

-----------------------------------------------------------------------------
(* Pictures of schedules.                                                   *)

\* While something of a picture is left to review, or is on its way, the picture is there.
PictureInv ==
  /\ Picture!TypeOK
  /\ reading \/ local \/ DOMAIN picturePending # {} => pictureStored

\* Of a picture there is something to review at first.
LEMMA PictureInit == Picture!Init => PictureInv
<1> SUFFICES ASSUME Picture!Init PROVE PictureInv
  OBVIOUS
<1>1. DOMAIN picturePending = {} /\ DOMAIN pictureRecords = {}
  BY DEF Picture!Init
<1>2. pictureStored = TRUE /\ local = TRUE /\ reading = FALSE /\ kept = None
  BY DEF Picture!Init
<1> QED
  BY <1>1, <1>2 DEF PictureInv, Picture!TypeOK

\* Every step preserves it: a company is asked with the picture, and the picture is deleted with
\* nothing left of it.
LEMMA PictureNext == PictureInv /\ [Picture!Next]_(Picture!vars) => PictureInv'
<1> SUFFICES ASSUME PictureInv, [Picture!Next]_(Picture!vars) PROVE PictureInv'
  OBVIOUS
<1> USE DEF PictureInv, Picture!TypeOK
<1>1. CASE UNCHANGED Picture!vars
  BY <1>1 DEF Picture!vars
<1>2. CASE Picture!ReadScheduleWithAi
  BY <1>2 DEF Picture!ReadScheduleWithAi
<1>3. ASSUME NEW answer \in Picture!Answers, Picture!ReadingArrives(answer) PROVE PictureInv'
  <2>1. DOMAIN answer \subseteq 1 .. Picture!Cardinality(Class)
    <3>1. Picture!Cardinality(Class) = Cardinality(Class)
      BY Zenon DEF Picture!Cardinality, Cardinality
    <3>2. Cardinality(Class) \in Nat
      BY ClassAssumption, FS_CardinalityType
    <3>3. PICK n \in 0 .. Picture!Cardinality(Class) : answer \in [1 .. n -> Class]
      BY DEF Picture!Answers
    <3>4. 1 .. n \subseteq 1 .. Picture!Cardinality(Class)
      BY <3>1, <3>2
    <3> QED
      BY <3>3, <3>4
  <2> QED
    BY <1>3, <2>1 DEF Picture!ReadingArrives
<1>4. CASE Picture!ReadingFails
  BY <1>4 DEF Picture!ReadingFails
<1>5. CASE Picture!ReviewLocal
  BY <1>5 DEF Picture!ReviewLocal
<1>6. ASSUME NEW place \in DOMAIN picturePending, Picture!Approve(place) PROVE PictureInv'
  <2>1. DOMAIN picturePending' \subseteq DOMAIN picturePending
        /\ DOMAIN pictureRecords' = DOMAIN pictureRecords \union {place}
    BY <1>6 DEF Picture!Approve, Picture!Without
  <2> QED
    BY <1>6, <2>1 DEF Picture!Approve
<1>7. ASSUME NEW place \in DOMAIN picturePending, Picture!Reject(place) PROVE PictureInv'
  <2>1. DOMAIN picturePending' \subseteq DOMAIN picturePending
    BY <1>7 DEF Picture!Reject, Picture!Without
  <2> QED
    BY <1>7, <2>1 DEF Picture!Reject
<1>8. ASSUME NEW decision \in {"keep_encrypted", "delete_now"}, Picture!SettleScheduleSource(decision) PROVE PictureInv'
  <2>1. CASE decision = "keep_encrypted"
    BY <1>8, <2>1 DEF Picture!SettleScheduleSource
  <2>2. CASE decision = "delete_now"
    <3>1. DOMAIN picturePending = {}
      BY <1>8, <2>2 DEF Picture!SettleScheduleSource
    <3> QED
      BY <1>8, <2>2, <3>1 DEF Picture!SettleScheduleSource
  <2> QED
    BY <2>1, <2>2
<1> QED
  BY <1>1, <1>2, <1>3, <1>4, <1>5, <1>6, <1>7, <1>8 DEF Picture!Next

\* A picture is not deleted under a reading of it, asked for or still to be reviewed.
THEOREM PicturesAreThere == Picture!Spec => []Picture!ReviewedAgainstItsSource
<1>1. PictureInv => Picture!ReviewedAgainstItsSource
  BY DEF PictureInv, Picture!ReviewedAgainstItsSource
<1> QED
  BY PictureInit, PictureNext, <1>1, PTL DEF Picture!Spec

-----------------------------------------------------------------------------
(* The companies.                                                           *)

\* A set of numbers that is not empty has a least one.
LEMMA HasLeast == \A S \in SUBSET Nat : S # {} => \E m \in S : \A n \in S : m <= n
<1> SUFFICES ASSUME NEW S \in SUBSET Nat, S # {} PROVE \E m \in S : \A n \in S : m <= n
  OBVIOUS
<1> DEFINE R == OpToRel(<, Nat)
<1>1. IsWellFoundedOn(R, Nat)
  BY NatLessThanWellFounded
<1>2. \A x, y \in Nat : x < y => <<x, y>> \in R
  BY DEF OpToRel
<1> HIDE DEF R
<1>3. PICK m \in S : \A y \in S : ~ (<<y, m>> \in R)
  BY <1>1, WFMin
<1>4. \A y \in S : ~ (y < m)
  BY <1>2, <1>3
<1> QED
  BY <1>4

\* The first of the student's order is one of those that are ready.
LEMMA FirstIsReady ==
  ASSUME order \in Ai!Orders, NEW ready \in SUBSET Provider
  PROVE  Ai!First(ready) \in ready \union {None}
<1> DEFINE ranks == {i \in DOMAIN order : order[i] \in ready}
<1>1. DOMAIN order \subseteq Nat
  BY DEF Ai!Orders, Ai!SetToSeqs
<1>2. CASE ranks = {}
  BY <1>2 DEF Ai!First
<1>3. CASE ranks # {}
  <2>1. \E i \in ranks : \A j \in ranks : i <= j
    BY <1>1, <1>3, HasLeast
  <2>2. (CHOOSE i \in ranks : \A j \in ranks : i <= j) \in ranks
    BY <2>1
  <2> QED
    BY <1>3, <2>2 DEF Ai!First
<1> QED
  BY <1>2, <1>3

\* So what the program finds is a company or none.
LEMMA ResolvesToProvider ==
  ASSUME order \in Ai!Orders, healthy \subseteq Provider
  PROVE  Ai!ResolveAiProvider \in Provider \union {None}
<1>1. Ai!First(healthy \intersect keys) \in (healthy \intersect keys) \union {None}
  BY FirstIsReady
<1> QED
  BY <1>1 DEF Ai!ResolveAiProvider

\* No view has read its list at first.
LEMMA AiInit == Ai!Init => Ai!TypeOK
  BY DEF Ai!Init, Ai!TypeOK

\* Every step keeps the types.
LEMMA AiNext == Ai!TypeOK /\ [Ai!Next]_(Ai!vars) => Ai!TypeOK'
<1> SUFFICES ASSUME Ai!TypeOK, [Ai!Next]_(Ai!vars) PROVE Ai!TypeOK'
  OBVIOUS
<1> DEFINE Lists == order' \in Ai!Orders /\ keys' \subseteq Provider /\ healthy' \subseteq Provider
                    /\ testing' \subseteq Provider
           Views == aiShown' \in [Ai!View -> Provider \union {None}]
           Boxes == consent' \in [Ai!View -> BOOLEAN]
           Requests == \A v \in Ai!View : aiCalls'[v] = None \/ aiCalls'[v] \in Ai!Calls
<1>0. Lists /\ Views /\ Boxes /\ Requests => Ai!TypeOK'
  BY DEF Ai!TypeOK
<1>a. /\ order \in Ai!Orders /\ keys \subseteq Provider /\ healthy \subseteq Provider /\ testing \subseteq Provider
      /\ aiShown \in [Ai!View -> Provider \union {None}]
      /\ \A v \in Ai!View : aiCalls[v] = None \/ aiCalls[v] \in Ai!Calls
  BY DEF Ai!TypeOK
<1>b. consent \in [Ai!View -> BOOLEAN]
  BY DEF Ai!TypeOK
<1>c. Ai!ResolveAiProvider \in Provider \union {None}
  BY <1>a, ResolvesToProvider
<1>d. Lists => (Ai!ResolveAiProvider)' \in Provider \union {None}
  <2> SUFFICES ASSUME Lists PROVE (Ai!ResolveAiProvider)' \in Provider \union {None}
    OBVIOUS
  <2>1. Ai!First(healthy \intersect keys)' \in (healthy \intersect keys)' \union {None}
    <3> DEFINE ranks == {i \in DOMAIN order' : order'[i] \in (healthy \intersect keys)'}
    <3>1. DOMAIN order' \subseteq Nat
      BY DEF Ai!Orders, Ai!SetToSeqs
    <3>2. CASE ranks = {}
      BY <3>2 DEF Ai!First
    <3>3. CASE ranks # {}
      <4>1. \E i \in ranks : \A j \in ranks : i <= j
        BY <3>1, <3>3, HasLeast
      <4>2. (CHOOSE i \in ranks : \A j \in ranks : i <= j) \in ranks
        BY <4>1
      <4> QED
        BY <3>3, <4>2 DEF Ai!First
    <3> QED
      BY <3>2, <3>3
  <2> QED
    BY <2>1 DEF Ai!ResolveAiProvider
<1>e. ASSUME NEW v \in Ai!View, NEW p \in Provider \union {None},
             UNCHANGED aiShown \/ aiShown' = [aiShown EXCEPT ![v] = p]
      PROVE  Views
  BY <1>a, <1>e
<1>f. ASSUME UNCHANGED consent \/ \E v \in Ai!View : \E b \in BOOLEAN : consent' = [consent EXCEPT ![v] = b]
      PROVE  Boxes
  <2>1. CASE UNCHANGED consent
    BY <1>b, <2>1
  <2>2. ASSUME NEW v \in Ai!View, NEW b \in BOOLEAN, consent' = [consent EXCEPT ![v] = b] PROVE Boxes
    BY <1>b, <2>2
  <2> QED
    BY <1>f, <2>1, <2>2
<1>g. UNCHANGED aiCalls => Requests
  BY <1>a
<1>h. "window" \in Ai!View /\ "study" \in Ai!View
  BY DEF Ai!View
<1> HIDE DEF Views, Boxes
<1>1. CASE UNCHANGED Ai!vars
  BY <1>1, <1>0, <1>a, <1>c, <1>e, <1>f, <1>g, <1>h DEF Ai!vars
<1>2. ASSUME NEW p \in Provider, NEW done \in BOOLEAN, Ai!SaveAiProviderKey(p, done) \/ Ai!TestEnds(p, done)
      PROVE  Ai!TypeOK'
  <2>1. Lists
    BY <1>2, <1>a DEF Ai!SaveAiProviderKey, Ai!TestEnds
  <2>2. UNCHANGED aiShown \/ aiShown' = [aiShown EXCEPT !["window"] = (Ai!ResolveAiProvider)']
    BY <1>2 DEF Ai!SaveAiProviderKey, Ai!TestEnds
  <2>3. Views
    BY <1>d, <1>e, <1>h, <2>1, <2>2
  <2>4. UNCHANGED <<consent, aiCalls>>
    BY <1>2 DEF Ai!SaveAiProviderKey, Ai!TestEnds
  <2> QED
    BY <1>0, <1>f, <1>g, <2>1, <2>3, <2>4
<1>3. ASSUME NEW p \in Provider, Ai!RemoveAiProvider(p) PROVE Ai!TypeOK'
  <2>1. Lists
    BY <1>3, <1>a DEF Ai!RemoveAiProvider
  <2>2. aiShown' = [aiShown EXCEPT !["window"] = (Ai!ResolveAiProvider)'] /\ UNCHANGED <<consent, aiCalls>>
    BY <1>3 DEF Ai!RemoveAiProvider
  <2> QED
    BY <1>0, <1>d, <1>e, <1>f, <1>g, <1>h, <2>1, <2>2
<1>4. ASSUME NEW new \in Ai!Orders, Ai!SetAiProviderOrder(new) PROVE Ai!TypeOK'
  <2>1. Lists
    BY <1>4, <1>a DEF Ai!SetAiProviderOrder
  <2>2. aiShown' = [aiShown EXCEPT !["window"] = (Ai!ResolveAiProvider)'] /\ UNCHANGED <<consent, aiCalls>>
    BY <1>4 DEF Ai!SetAiProviderOrder
  <2> QED
    BY <1>0, <1>d, <1>e, <1>f, <1>g, <1>h, <2>1, <2>2
<1>5. ASSUME NEW p \in Provider, Ai!TestAiProvider(p) PROVE Ai!TypeOK'
  <2>1. Lists
    BY <1>5, <1>a DEF Ai!TestAiProvider
  <2>2. UNCHANGED <<aiShown, consent, aiCalls>>
    BY <1>5 DEF Ai!TestAiProvider
  <2> QED
    BY <1>0, <1>c, <1>e, <1>f, <1>g, <1>h, <2>1, <2>2
<1>6. ASSUME NEW v \in Ai!View, Ai!OpenView(v) PROVE Ai!TypeOK'
  <2>1. aiShown' = [aiShown EXCEPT ![v] = Ai!ResolveAiProvider]
    BY <1>6 DEF Ai!OpenView
  <2>2. UNCHANGED <<order, keys, healthy, consent, aiCalls, testing>>
    BY <1>6 DEF Ai!OpenView
  <2> QED
    BY <1>0, <1>a, <1>c, <1>e, <1>f, <1>g, <2>1, <2>2
<1>7. ASSUME NEW v \in Ai!View, Ai!Tick(v) PROVE Ai!TypeOK'
  <2>1. consent' = [consent EXCEPT ![v] = ~consent[v]] /\ UNCHANGED <<order, keys, healthy, aiShown, aiCalls, testing>>
    BY <1>7 DEF Ai!Tick
  <2>2. Boxes
    <3>1. (~consent[v]) \in BOOLEAN
      OBVIOUS
    <3> QED
      BY <1>f, <2>1, <3>1
  <2> QED
    BY <1>0, <1>a, <1>c, <1>e, <1>g, <1>h, <2>1, <2>2
<1>8. ASSUME NEW v \in Ai!View, NEW asked \in Ai!Calls \union {None}, aiCalls' = [aiCalls EXCEPT ![v] = asked],
             UNCHANGED <<order, keys, healthy, aiShown, consent, testing>>
      PROVE  Ai!TypeOK'
  <2>1. Requests
    BY <1>8, <1>a
  <2> QED
    BY <1>0, <1>a, <1>c, <1>e, <1>f, <1>h, <1>8, <2>1
<1>9. ASSUME NEW v \in Ai!View, Ai!Ask(v) PROVE Ai!TypeOK'
  <2> DEFINE asked == [kind |-> IF v = "study" THEN "materials" ELSE "excerpt", shown |-> aiShown[v], to |-> None]
  <2>1. asked \in Ai!Calls
    <3>1. aiShown[v] \in Provider
      BY <1>9, <1>a DEF Ai!Ask
    <3> QED
      BY <3>1 DEF Ai!Calls
  <2>2. aiCalls' = [aiCalls EXCEPT ![v] = asked] /\ UNCHANGED <<order, keys, healthy, aiShown, consent, testing>>
    BY <1>9 DEF Ai!Ask
  <2> HIDE DEF asked
  <2> QED
    BY <1>8, <2>1, <2>2
<1>10. ASSUME Ai!AskWithPicture PROVE Ai!TypeOK'
  <2> DEFINE asked == [kind |-> "picture", shown |-> Ai!ResolveAiProvider, to |-> None]
  <2>1. asked \in Ai!Calls
    <3>1. Ai!ResolveAiProvider \in Provider
      BY <1>10, <1>c DEF Ai!AskWithPicture
    <3> QED
      BY <3>1 DEF Ai!Calls
  <2>2. aiCalls' = [aiCalls EXCEPT !["window"] = asked] /\ UNCHANGED <<order, keys, healthy, aiShown, consent, testing>>
    BY <1>10 DEF Ai!AskWithPicture
  <2> HIDE DEF asked
  <2> QED
    BY <1>8, <1>h, <2>1, <2>2
<1>11. ASSUME NEW v \in Ai!View, Ai!Send(v) PROVE Ai!TypeOK'
  <2> DEFINE asked == [aiCalls[v] EXCEPT !.to = Ai!ResolveAiProvider]
  <2>1. asked \in Ai!Calls
    <3>1. aiCalls[v] \in Ai!Calls
      BY <1>11, <1>a DEF Ai!Send
    <3> QED
      BY <3>1, <1>c DEF Ai!Calls
  <2>2. aiCalls' = [aiCalls EXCEPT ![v] = asked] /\ UNCHANGED <<order, keys, healthy, aiShown, consent, testing>>
    BY <1>11 DEF Ai!Send
  <2> HIDE DEF asked
  <2> QED
    BY <1>8, <2>1, <2>2
<1>12. ASSUME NEW v \in Ai!View, Ai!Succeeds(v) PROVE Ai!TypeOK'
  <2>1. Requests
    BY <1>12, <1>a DEF Ai!Succeeds, Ai!Answered
  <2>2. consent' = [consent EXCEPT ![v] = consent[v] /\ v = "window"] /\ UNCHANGED <<order, keys, healthy, aiShown, testing>>
    BY <1>12 DEF Ai!Succeeds
  <2>3. Boxes
    <3>1. (consent[v] /\ v = "window") \in BOOLEAN
      OBVIOUS
    <3> QED
      BY <1>f, <2>2, <3>1
  <2> QED
    BY <1>0, <1>a, <1>c, <1>e, <1>h, <2>1, <2>2, <2>3
<1>13. ASSUME NEW v \in Ai!View, NEW shows \in BOOLEAN, Ai!Fails(v, shows) PROVE Ai!TypeOK'
  <2>1. Requests
    BY <1>13, <1>a DEF Ai!Fails, Ai!Answered
  <2>2. Lists
    BY <1>13, <1>a DEF Ai!Fails
  <2>3. UNCHANGED aiShown \/ aiShown' = [aiShown EXCEPT ![v] = (Ai!ResolveAiProvider)']
    BY <1>13 DEF Ai!Fails
  <2>4. Views
    BY <1>d, <1>e, <2>2, <2>3
  <2>5. UNCHANGED consent \/ consent' = [consent EXCEPT ![v] = FALSE]
    BY <1>13 DEF Ai!Fails
  <2>6. Boxes
    <3>1. FALSE \in BOOLEAN
      OBVIOUS
    <3> QED
      BY <1>f, <2>5, <3>1
  <2> QED
    BY <1>0, <2>1, <2>2, <2>4, <2>6
<1>14. ASSUME Ai!Restart PROVE Ai!TypeOK'
  <2>1. Lists
    BY <1>14, <1>a DEF Ai!Restart
  <2>2. Views /\ Boxes
    BY <1>14 DEF Ai!Restart, Views, Boxes
  <2>3. Requests
    BY <1>14 DEF Ai!Restart
  <2> QED
    BY <1>0, <2>1, <2>2, <2>3
<1> QED
  BY <1>1, <1>2, <1>3, <1>4, <1>5, <1>6, <1>7, <1>9, <1>10, <1>11, <1>12, <1>13, <1>14 DEF Ai!Next

-----------------------------------------------------------------------------
(* Documents in transfer.                                                   *)

Manifests == [manifest : 1 .. MaxUploads, done : BOOLEAN]

Uploads == [by : Computer, manifest : 1 .. MaxUploads, at : {"initiate", "put"}, missing : SUBSET Transfer!Chunk]

Downloads == [by : Computer, number : 1 .. MaxDownloads, into : Transfer!File,
              at : {"fetch", "open", "write", "move", "row"}]

TheDisk == <<documentFiles, syncing, writer>>

\* What is sent has been bound; a row is written where the file is, or where the student had it
\* deleted; a document that is complete has its chunks.
Service ==
  /\ object \in Manifests \union {None}
  /\ storage \subseteq Transfer!Chunk
  /\ object \in Manifests /\ object.done => Transfer!Verified

Sending ==
  /\ uploads \subseteq Uploads
  /\ \A u \in uploads : u.at = "put" => object \in Manifests

Fetching ==
  /\ downloads \subseteq Downloads
  /\ \A w \in downloads : w.at = "row" => documentFiles[w.by] # {} \/ w.by \in deleted

Listing ==
  /\ documentRows \in [Computer -> {"none", "kept", "deleted"}]
  /\ settling \subseteq Computer /\ deleted \subseteq Computer
  /\ overlapped \subseteq Computer /\ cutShort \subseteq Computer
  /\ \A c \in Computer : documentRows[c] = "kept" => documentFiles[c] # {} \/ c \in deleted

Giving == given \in [uploads : 0 .. MaxUploads, downloads : 0 .. MaxDownloads, deletions : 0 .. MaxDeletions]

\* The files of a computer: the temporary one is not the document's, and what is to be filled is
\* being filled, unless a download was cut short.
Lying ==
  /\ documentFiles \in [Computer -> SUBSET Transfer!File]
  /\ syncing \in [Computer -> SUBSET Transfer!File]
  /\ writer \in [Computer -> [Transfer!File -> Transfer!File]]
  /\ \A c \in Computer : \A f \in syncing[c] : f \notin documentFiles[c]
  /\ \A c \in Computer : \A f \in Transfer!File :
       Transfer!Whole(c, f) \/ Transfer!BeingWritten(c, f) \/ c \in cutShort

\* Every download has a number of its own, and a file it would create is not there before.
Counting ==
  /\ \A w, v \in downloads : w.number = v.number => w = v
  /\ \A w \in downloads : w.number <= given.downloads
  /\ \A c \in Computer : \A f \in documentFiles[c] \union syncing[c] : f <= given.downloads
  /\ \A w \in downloads : w.at \in {"fetch", "open"} =>
       w.number \notin documentFiles[w.by] \union syncing[w.by]

Busy(w) == w.at \in {"write", "move"}

\* Where no two downloads have met, the one that writes or moves has the temporary file to itself,
\* which waits for this one only and is whole when it is moved.
Pending(w) == IF w.at = "write" THEN w.number ELSE 0

NoneMet ==
  \A c \in Computer : c \notin overlapped =>
    /\ \A w, v \in downloads : w.by = c /\ v.by = c /\ Busy(w) /\ Busy(v) => w = v
    /\ \A w \in downloads : w.by = c /\ Busy(w) => syncing[c] = {w.into} /\ writer[c][w.into] = Pending(w)
    /\ \A f \in documentFiles[c] : Transfer!Whole(c, f)

TransferInv == Service /\ Sending /\ Fetching /\ Listing /\ Giving /\ Lying /\ Counting /\ NoneMet

\* It implies the types and what a transfer promises.
LEMMA TransferImplies == TransferInv => Transfer!TypeOK /\ Transfer!DocumentHolds
<1> SUFFICES ASSUME TransferInv PROVE Transfer!TypeOK /\ Transfer!DocumentHolds
  OBVIOUS
<1>0. Service /\ Sending /\ Fetching /\ Listing /\ Lying /\ NoneMet
  BY DEF TransferInv
<1>1. Transfer!TypeOK
  BY <1>0 DEF Service, Sending, Fetching, Listing, Lying, Manifests, Uploads, Downloads, Transfer!TypeOK
<1>2. ASSUME NEW c \in Computer, NEW f \in documentFiles[c]
      PROVE Transfer!Whole(c, f) \/ (c \in overlapped /\ (Transfer!BeingWritten(c, f) \/ c \in cutShort))
  <2>1. f \in Transfer!File
    BY <1>0, <1>2 DEF Lying
  <2>2. Transfer!Whole(c, f) \/ Transfer!BeingWritten(c, f) \/ c \in cutShort
    BY <1>0, <1>2, <2>1 DEF Lying
  <2>3. c \notin overlapped => Transfer!Whole(c, f)
    BY <1>0, <1>2 DEF NoneMet
  <2> QED
    BY <2>2, <2>3
<1>3. \A c \in Computer : documentRows[c] = "kept" => documentFiles[c] # {} \/ c \in deleted
  BY <1>0 DEF Listing
<1>4. Transfer!Bound /\ object.done => Transfer!Verified
  BY <1>0 DEF Service, Transfer!Bound
<1> QED
  BY <1>1, <1>2, <1>3, <1>4 DEF Transfer!DocumentHolds

\* One computer has the document and its file, and the service has nothing.
LEMMA TransferInit == Transfer!Init => TransferInv
<1> SUFFICES ASSUME Transfer!Init PROVE TransferInv
  OBVIOUS
<1> USE DEF Transfer!Init
<1>1. Service
  BY TransferAssumption DEF Service, Manifests
<1>2. Sending /\ Fetching /\ Listing
  BY TransferAssumption DEF Sending, Fetching, Listing
<1>3. Giving
  BY TransferAssumption DEF Giving
<1>4. 0 \in Transfer!File
  BY TransferAssumption DEF Transfer!File
<1>5. Lying
  BY <1>4 DEF Lying, Transfer!Whole
<1>6. Counting
  BY TransferAssumption DEF Counting
<1>7. NoneMet
  BY <1>4 DEF NoneMet, Transfer!Whole
<1> QED
  BY <1>1, <1>2, <1>3, <1>5, <1>6, <1>7 DEF TransferInv

\* The least of the chunks that are missing is one of them.
LEMMA SendsMissingChunk ==
  ASSUME NEW S \in SUBSET Transfer!Chunk, S # {}
  PROVE  Transfer!Min(S) \in S
<1>1. S \in SUBSET Nat
  BY TransferAssumption DEF Transfer!Chunk
<1>2. \E m \in S : \A n \in S : m <= n
  BY <1>1, HasLeast
<1> QED
  BY <1>2 DEF Transfer!Min

\* Every step of an upload, a download and a deletion preserves it.
LEMMA TransferNext == TransferInv /\ [Transfer!Next]_(Transfer!vars) => TransferInv'
<1> SUFFICES ASSUME TransferInv, [Transfer!Next]_(Transfer!vars) PROVE TransferInv'
  OBVIOUS
<1>0. Service /\ Sending /\ Fetching /\ Listing /\ Giving /\ Lying /\ Counting /\ NoneMet
  BY DEF TransferInv
<1>a. UNCHANGED <<object, storage>> => Service'
  BY <1>0 DEF Service, Transfer!Verified
<1>b. uploads' \subseteq uploads /\ UNCHANGED object => Sending'
  BY <1>0 DEF Sending
<1>c. downloads' \subseteq downloads /\ UNCHANGED <<documentFiles, deleted>> => Fetching'
  BY <1>0 DEF Fetching
<1>d. UNCHANGED <<documentRows, documentFiles, deleted, overlapped, cutShort>> /\ settling' \subseteq settling => Listing'
  BY <1>0 DEF Listing
<1>e. UNCHANGED given => Giving'
  BY <1>0 DEF Giving
<1>f. UNCHANGED <<TheDisk, downloads, cutShort>> => Lying'
  BY <1>0 DEF Lying, TheDisk, Transfer!Whole, Transfer!BeingWritten
<1>g. UNCHANGED <<TheDisk, given>> /\ downloads' \subseteq downloads => Counting'
  BY <1>0 DEF Counting, TheDisk
<1>h. UNCHANGED <<TheDisk, overlapped>> /\ downloads' \subseteq downloads => NoneMet'
  BY <1>0 DEF NoneMet, TheDisk, Transfer!Whole
<1>i. UNCHANGED <<TheDisk, downloads, deleted, overlapped, cutShort>> => Fetching' /\ Lying' /\ NoneMet'
  BY <1>c, <1>f, <1>h DEF TheDisk
<1>u. \A u \in uploads : u \in Uploads /\ u.missing \in SUBSET Transfer!Chunk /\ (u.at = "put" => object \in Manifests)
  BY <1>0 DEF Sending, Uploads
<1>w. \A w \in downloads : w \in Downloads /\ w.by \in Computer /\ w.number \in Transfer!File /\ w.number # 0
        /\ w.into \in Transfer!File
  BY <1>0, TransferAssumption DEF Fetching, Downloads, Transfer!File
<1> USE DEF Transfer!disk, Transfer!history
<1>1. CASE UNCHANGED Transfer!vars
  <2>1. UNCHANGED <<object, storage, documentRows, TheDisk, uploads, downloads, settling, deleted, overlapped, cutShort, given>>
    BY <1>1 DEF Transfer!vars, TheDisk
  <2> QED
    BY <2>1, <1>a, <1>b, <1>d, <1>e, <1>g, <1>i DEF TransferInv, TheDisk
<1>2. ASSUME NEW c \in Computer, Transfer!UploadSyncedDocument(c) PROVE TransferInv'
  <2>1. UNCHANGED <<object, storage, documentRows, TheDisk, downloads, settling, deleted, overlapped, cutShort>>
    BY <1>2 DEF Transfer!UploadSyncedDocument, TheDisk
  <2>2. Giving' /\ given'.uploads \in 1 .. MaxUploads /\ given'.downloads = given.downloads
    BY <1>0, <1>2, TransferAssumption DEF Transfer!UploadSyncedDocument, Giving
  <2> DEFINE u == [by |-> c, manifest |-> given'.uploads, at |-> "initiate", missing |-> {}]
  <2>3. u \in Uploads /\ u.at = "initiate"
    BY <2>2 DEF Uploads
  <2>4. uploads' = uploads \union {u}
    BY <1>2 DEF Transfer!UploadSyncedDocument
  <2> HIDE DEF u
  <2>5. Sending'
    BY <1>0, <2>1, <2>3, <2>4 DEF Sending
  <2>6. Counting'
    BY <1>0, <2>1, <2>2 DEF Counting, TheDisk
  <2> QED
    BY <1>a, <1>i, <1>d, <2>1, <2>2, <2>5, <2>6 DEF TransferInv, TheDisk
<1>3. ASSUME NEW u \in uploads, Transfer!InitiateObject(u) PROVE TransferInv'
  <2>1. UNCHANGED <<storage, documentRows, TheDisk, downloads, settling, deleted, overlapped, cutShort, given>>
    BY <1>3 DEF Transfer!InitiateObject, TheDisk
  <2>2. CASE uploads' \subseteq uploads /\ UNCHANGED object
    BY <1>a, <1>b, <1>i, <1>g, <1>d, <1>e, <2>1, <2>2 DEF TransferInv, TheDisk
  <2>3. CASE ~(uploads' \subseteq uploads /\ UNCHANGED object)
    <3> DEFINE v == [u EXCEPT !.at = "put", !.missing = Transfer!Chunk \ storage]
               m == [manifest |-> u.manifest, done |-> FALSE]
    <3>1. object' = m /\ uploads' = (uploads \ {u}) \union {v}
      BY <1>3, <2>3 DEF Transfer!InitiateObject
    <3>2. v \in Uploads
      BY <1>u DEF Uploads
    <3>3. m \in Manifests /\ m.done = FALSE
      BY <1>u DEF Uploads, Manifests
    <3> HIDE DEF m, v
    <3>4. Service'
      BY <1>0, <2>1, <3>1, <3>3 DEF Service
    <3>5. Sending'
      BY <1>0, <3>1, <3>2, <3>3 DEF Sending
    <3> QED
      BY <1>i, <1>g, <1>d, <1>e, <2>1, <3>4, <3>5 DEF TransferInv, TheDisk
  <2> QED
    BY <2>2, <2>3
<1>4. ASSUME NEW u \in uploads, Transfer!PutObjectChunk(u) PROVE TransferInv'
  <2>1. UNCHANGED <<object, documentRows, TheDisk, downloads, settling, deleted, overlapped, cutShort, given>>
    BY <1>4 DEF Transfer!PutObjectChunk, TheDisk
  <2>2. Transfer!Min(u.missing) \in Transfer!Chunk
    BY <1>4, <1>u, SendsMissingChunk DEF Transfer!PutObjectChunk
  <2> DEFINE v == [u EXCEPT !.missing = u.missing \ {Transfer!Min(u.missing)}]
  <2>3. v \in Uploads /\ v.at = "put" /\ object \in Manifests
    BY <1>4, <1>u DEF Transfer!PutObjectChunk, Uploads
  <2>4. uploads' = (uploads \ {u}) \union {v} /\ storage' = storage \union {Transfer!Min(u.missing)}
    BY <1>4 DEF Transfer!PutObjectChunk
  <2> HIDE DEF v
  <2>5. Sending'
    BY <1>0, <2>1, <2>3, <2>4 DEF Sending
  <2>6. Service'
    BY <1>0, <2>1, <2>2, <2>4 DEF Service, Transfer!Verified
  <2> QED
    BY <1>i, <1>g, <1>d, <1>e, <2>1, <2>5, <2>6 DEF TransferInv, TheDisk
<1>5. ASSUME NEW u \in uploads, Transfer!CompleteObject(u) PROVE TransferInv'
  <2>1. UNCHANGED <<storage, documentRows, TheDisk, downloads, settling, deleted, overlapped, cutShort, given>>
        /\ uploads' \subseteq uploads
    BY <1>5 DEF Transfer!CompleteObject, TheDisk
  <2>2. object \in Manifests
    BY <1>5, <1>u DEF Transfer!CompleteObject
  <2>3. object' = [object EXCEPT !.done = object.done \/ Transfer!Verified]
    BY <1>5 DEF Transfer!CompleteObject
  <2>4. object' \in Manifests /\ (object'.done => object.done \/ Transfer!Verified)
    <3>1. (object.done \/ Transfer!Verified) \in BOOLEAN
      OBVIOUS
    <3> QED
      BY <2>2, <2>3, <3>1 DEF Manifests
  <2>5. Service'
    BY <1>0, <2>1, <2>2, <2>4 DEF Service, Transfer!Verified
  <2>6. Sending'
    BY <1>0, <2>1, <2>4 DEF Sending
  <2> QED
    BY <1>i, <1>g, <1>d, <1>e, <2>1, <2>5, <2>6 DEF TransferInv, TheDisk
<1>6. ASSUME NEW c \in Computer, Transfer!DownloadSyncedDocument(c) PROVE TransferInv'
  <2>1. UNCHANGED <<object, storage, documentRows, TheDisk, uploads, settling, deleted, overlapped, cutShort>>
    BY <1>6 DEF Transfer!DownloadSyncedDocument, TheDisk
  <2>2. Giving' /\ given'.downloads \in 1 .. MaxDownloads /\ given'.downloads = given.downloads + 1
        /\ given.downloads \in Nat
    BY <1>0, <1>6, TransferAssumption DEF Transfer!DownloadSyncedDocument, Giving
  <2> DEFINE w == [by |-> c, number |-> given'.downloads, into |-> 0, at |-> "fetch"]
  <2>3. w \in Downloads /\ w.at = "fetch" /\ w.number = given.downloads + 1 /\ w.by = c
    BY <2>2, TransferAssumption DEF Downloads, Transfer!File
  <2>4. downloads' = downloads \union {w}
    BY <1>6 DEF Transfer!DownloadSyncedDocument
  <2> HIDE DEF w
  <2>5. Fetching'
    BY <1>0, <2>1, <2>3, <2>4 DEF Fetching, TheDisk
  <2>6. Lying'
    BY <1>0, <2>1, <2>4 DEF Lying, TheDisk, Transfer!Whole, Transfer!BeingWritten
  <2>7. Counting'
    <3>1. \A v \in downloads : v.number \in Nat /\ v.number <= given.downloads
      BY <1>0, <1>w, TransferAssumption DEF Counting, Transfer!File
    <3>2. \A v1, v2 \in downloads' : v1.number = v2.number => v1 = v2
      BY <1>0, <2>2, <2>3, <2>4, <3>1 DEF Counting
    <3>3. \A v \in downloads' : v.number <= given'.downloads
      BY <2>2, <2>3, <2>4, <3>1
    <3>4. \A b \in Computer : \A f \in documentFiles[b] \union syncing[b] : f \in Nat /\ f <= given.downloads
      <4>1. Transfer!File \subseteq Nat
        BY TransferAssumption DEF Transfer!File
      <4> QED
        BY <1>0, <4>1 DEF Counting, Lying
    <3>5. UNCHANGED documentFiles /\ UNCHANGED syncing
      BY <2>1 DEF TheDisk
    <3>6. \A b \in Computer : \A f \in documentFiles'[b] \union syncing'[b] : f <= given'.downloads
      BY <2>2, <3>4, <3>5
    <3>7. w.number \notin documentFiles[c] \union syncing[c]
      BY <2>2, <2>3, <3>4
    <3>8. \A v \in downloads' : v.at \in {"fetch", "open"} => v.number \notin documentFiles'[v.by] \union syncing'[v.by]
      BY <1>0, <2>3, <2>4, <3>5, <3>7 DEF Counting
    <3> QED
      BY <3>2, <3>3, <3>6, <3>8 DEF Counting
  <2>8. NoneMet'
    BY <1>0, <2>1, <2>3, <2>4 DEF NoneMet, Busy, TheDisk, Transfer!Whole
  <2> QED
    BY <1>a, <1>b, <1>d, <2>1, <2>2, <2>5, <2>6, <2>7, <2>8 DEF TransferInv, TheDisk
<1>7. ASSUME NEW w \in downloads, Transfer!OpenEncryptedObject(w) PROVE TransferInv'
  <2>1. UNCHANGED <<object, storage, documentRows, TheDisk, uploads, settling, deleted, overlapped, cutShort, given>>
    BY <1>7 DEF Transfer!OpenEncryptedObject, TheDisk
  <2>2. CASE downloads' \subseteq downloads
    <3>1. Lying'
      <4>1. w.at = "fetch" /\ downloads \ {w} \subseteq downloads'
        BY <1>7 DEF Transfer!OpenEncryptedObject
      <4> QED
        BY <1>0, <2>1, <4>1 DEF Lying, TheDisk, Transfer!Whole, Transfer!BeingWritten
    <3> QED
      BY <1>a, <1>b, <1>c, <1>d, <1>e, <1>g, <1>h, <2>1, <2>2, <3>1 DEF TransferInv, TheDisk
  <2>3. CASE ~(downloads' \subseteq downloads)
    <3> DEFINE v == [w EXCEPT !.at = "open"]
    <3>1. v \in Downloads /\ v.at = "open" /\ v.by = w.by /\ v.number = w.number
      BY <1>w DEF Downloads
    <3>2. w.at = "fetch" /\ downloads' = (downloads \ {w}) \union {v}
      BY <1>7, <2>3 DEF Transfer!OpenEncryptedObject
    <3> HIDE DEF v
    <3>3. Fetching'
      BY <1>0, <2>1, <3>1, <3>2 DEF Fetching, TheDisk
    <3>4. Lying'
      BY <1>0, <2>1, <3>2 DEF Lying, TheDisk, Transfer!Whole, Transfer!BeingWritten
    <3>5. Counting'
      BY <1>0, <2>1, <3>1, <3>2 DEF Counting, TheDisk
    <3>6. NoneMet'
      BY <1>0, <2>1, <3>1, <3>2 DEF NoneMet, Busy, TheDisk, Transfer!Whole
    <3> QED
      BY <1>a, <1>b, <1>d, <1>e, <2>1, <3>3, <3>4, <3>5, <3>6 DEF TransferInv, TheDisk
  <2> QED
    BY <2>2, <2>3
<1>8. ASSUME NEW w \in downloads, Transfer!WriteFile(w) PROVE TransferInv'
  <2>1. UNCHANGED <<object, storage, documentRows, documentFiles, syncing, uploads, settling, deleted, overlapped, cutShort, given>>
        /\ w.at = "write"
    BY <1>8 DEF Transfer!WriteFile
  <2> DEFINE v == [w EXCEPT !.at = "move"]
  <2>2. v \in Downloads /\ v.by = w.by /\ v.number = w.number /\ v.into = w.into /\ v.at = "move"
    BY <1>w DEF Downloads
  <2>3. downloads' = (downloads \ {w}) \union {v}
    BY <1>8 DEF Transfer!WriteFile, Transfer!Goes
  <2> HIDE DEF v
  <2>4. writer \in [Computer -> [Transfer!File -> Transfer!File]] /\ 0 \in Transfer!File
    BY <1>0, TransferAssumption DEF Lying, Transfer!File
  <2>5. writer' = [writer EXCEPT ![w.by][w.into] = IF writer[w.by][w.into] = w.number THEN 0 ELSE writer[w.by][w.into]]
    BY <1>8 DEF Transfer!WriteFile
  <2>6. writer' \in [Computer -> [Transfer!File -> Transfer!File]]
        /\ \A c \in Computer : \A f \in Transfer!File :
             writer'[c][f] = IF c = w.by /\ f = w.into /\ writer[c][f] = w.number THEN 0 ELSE writer[c][f]
    BY <1>w, <2>4, <2>5
  <2>7. Fetching'
    BY <1>0, <2>1, <2>2, <2>3 DEF Fetching
  <2>8. Lying'
    <3>1. ASSUME NEW c \in Computer, NEW f \in Transfer!File PROVE (Transfer!Whole(c, f) \/ Transfer!BeingWritten(c, f) \/ c \in cutShort)'
      <4>1. CASE writer'[c][f] = 0
        BY <4>1 DEF Transfer!Whole
      <4>2. CASE writer'[c][f] # 0
        <5>1. writer'[c][f] = writer[c][f] /\ ~(c = w.by /\ f = w.into /\ writer[c][f] = w.number)
          BY <2>6, <4>2
        <5>2. Transfer!BeingWritten(c, f) \/ c \in cutShort
          BY <1>0, <4>2, <5>1 DEF Lying, Transfer!Whole
        <5> QED
          BY <2>1, <2>3, <5>1, <5>2 DEF Transfer!BeingWritten
      <4> QED
        BY <4>1, <4>2
    <3> QED
      BY <1>0, <2>1, <2>6, <3>1 DEF Lying
  <2>9. Counting'
    BY <1>0, <2>1, <2>2, <2>3 DEF Counting
  <2>10. NoneMet'
    <3> SUFFICES ASSUME NEW c \in Computer, c \notin overlapped
                 PROVE  /\ \A x, y \in downloads' : x.by = c /\ y.by = c /\ Busy(x) /\ Busy(y) => x = y
                        /\ \A x \in downloads' : x.by = c /\ Busy(x) => syncing[c] = {x.into} /\ writer'[c][x.into] = Pending(x)
                        /\ \A f \in documentFiles[c] : writer'[c][f] = 0
      BY <2>1 DEF NoneMet, Transfer!Whole, Busy, Pending
    <3>1. /\ \A x, y \in downloads : x.by = c /\ y.by = c /\ Busy(x) /\ Busy(y) => x = y
          /\ \A x \in downloads : x.by = c /\ Busy(x) => syncing[c] = {x.into} /\ writer[c][x.into] = Pending(x)
          /\ \A f \in documentFiles[c] : writer[c][f] = 0 /\ f \in Transfer!File
      BY <1>0 DEF NoneMet, Transfer!Whole, Lying
    <3>2. Busy(w) /\ Busy(v)
      BY <2>1, <2>2 DEF Busy
    <3>3. \A x, y \in downloads' : x.by = c /\ y.by = c /\ Busy(x) /\ Busy(y) => x = y
      BY <2>2, <2>3, <3>1, <3>2
    <3>4. \A f \in documentFiles[c] : writer'[c][f] = 0
      BY <2>6, <3>1
    <3>5. ASSUME NEW x \in downloads', x.by = c, Busy(x)
          PROVE  syncing[c] = {x.into} /\ writer'[c][x.into] = Pending(x)
      <4>1. CASE x = v
        <5>1. c = w.by /\ x.into = w.into /\ Pending(x) = 0
          BY <2>2, <3>5, <4>1 DEF Pending
        <5>2. writer[c][w.into] = w.number /\ syncing[c] = {w.into}
          BY <2>1, <3>1, <3>2, <5>1 DEF Pending
        <5> QED
          BY <1>w, <2>6, <5>1, <5>2
      <4>2. CASE x # v
        <5>1. x \in downloads /\ x # w
          BY <2>3, <4>2
        <5>2. c # w.by
          BY <3>1, <3>2, <3>5, <5>1
        <5> QED
          BY <1>w, <2>6, <3>1, <3>5, <5>1, <5>2
      <4> QED
        BY <4>1, <4>2
    <3> QED
      BY <3>3, <3>4, <3>5
  <2> QED
    BY <1>a, <1>b, <1>d, <1>e, <2>1, <2>7, <2>8, <2>9, <2>10 DEF TransferInv
<1>13. ASSUME NEW w \in downloads, Transfer!OpenTemporary(w) PROVE TransferInv'
  <2>1. UNCHANGED <<object, storage, documentRows, documentFiles, uploads, settling, deleted, cutShort, given>>
        /\ w.at = "open"
        /\ overlapped' = overlapped \union {c \in {w.by} : \E v \in downloads : v.by = c /\ v.at \in {"write", "move"}}
    BY <1>13 DEF Transfer!OpenTemporary
  <2>2. PICK f \in IF syncing[w.by] = {} THEN {w.number} ELSE syncing[w.by] :
          /\ syncing' = [syncing EXCEPT ![w.by] = {f}]
          /\ writer' = [writer EXCEPT ![w.by][f] = w.number]
          /\ downloads' = (downloads \ {w}) \union {[w EXCEPT !.at = "write", !.into = f]}
    BY <1>13 DEF Transfer!OpenTemporary
  <2>3. f \in Transfer!File /\ f \notin documentFiles[w.by] /\ f <= given.downloads
        /\ \A v \in downloads : v # w /\ v.by = w.by /\ v.at \in {"fetch", "open"} => v.number # f
    <3>1. CASE syncing[w.by] = {}
      BY <1>0, <1>w, <2>1, <2>2, <3>1 DEF Counting
    <3>2. CASE syncing[w.by] # {}
      <4>1. f \in syncing[w.by]
        BY <2>2, <3>2
      <4> QED
        BY <1>0, <1>w, <4>1 DEF Counting, Lying
    <3> QED
      BY <3>1, <3>2
  <2> DEFINE v == [w EXCEPT !.at = "write", !.into = f]
  <2>4. v \in Downloads /\ v.by = w.by /\ v.number = w.number /\ v.into = f /\ v.at = "write"
    BY <1>w, <2>3 DEF Downloads
  <2>5. downloads' = (downloads \ {w}) \union {v}
    BY <2>2
  <2> HIDE DEF v
  <2>6. syncing' \in [Computer -> SUBSET Transfer!File]
        /\ \A c \in Computer : syncing'[c] = IF c = w.by THEN {f} ELSE syncing[c]
    BY <1>0, <1>w, <2>2, <2>3 DEF Lying
  <2>7. writer' \in [Computer -> [Transfer!File -> Transfer!File]]
        /\ \A c \in Computer : \A g \in Transfer!File :
             writer'[c][g] = IF c = w.by /\ g = f THEN w.number ELSE writer[c][g]
    BY <1>0, <1>w, <2>2, <2>3 DEF Lying
  <2>8. Fetching'
    BY <1>0, <2>1, <2>4, <2>5 DEF Fetching
  <2>9. Listing'
    BY <1>0, <1>w, <2>1 DEF Listing
  <2>10. Lying'
    <3>1. ASSUME NEW c \in Computer, NEW g \in Transfer!File PROVE (Transfer!Whole(c, g) \/ Transfer!BeingWritten(c, g) \/ c \in cutShort)'
      <4>1. CASE c = w.by /\ g = f
        BY <2>4, <2>5, <2>7, <4>1 DEF Transfer!BeingWritten
      <4>2. CASE ~(c = w.by /\ g = f)
        <5>1. writer'[c][g] = writer[c][g]
          BY <2>7, <4>2
        <5>2. Transfer!Whole(c, g) \/ Transfer!BeingWritten(c, g) \/ c \in cutShort
          BY <1>0 DEF Lying
        <5> QED
          BY <2>1, <2>5, <5>1, <5>2 DEF Transfer!Whole, Transfer!BeingWritten
      <4> QED
        BY <4>1, <4>2
    <3>2. \A c \in Computer : \A g \in syncing'[c] : g \notin documentFiles[c]
      BY <1>0, <2>3, <2>6 DEF Lying
    <3> QED
      BY <1>0, <2>1, <2>6, <2>7, <3>1, <3>2 DEF Lying
  <2>11. Counting'
    <3>1. \A x, y \in downloads' : x.number = y.number => x = y
      BY <1>0, <2>4, <2>5 DEF Counting
    <3>2. \A x \in downloads' : x.number <= given.downloads
      BY <1>0, <2>4, <2>5 DEF Counting
    <3>3. \A c \in Computer : \A g \in documentFiles[c] \union syncing'[c] : g <= given.downloads
      BY <1>0, <2>3, <2>6 DEF Counting
    <3>4. \A x \in downloads' : x.at \in {"fetch", "open"} => x.number \notin documentFiles[x.by] \union syncing'[x.by]
      <4> SUFFICES ASSUME NEW x \in downloads', x.at \in {"fetch", "open"} PROVE x.number \notin documentFiles[x.by] \union syncing'[x.by]
        OBVIOUS
      <4>1. x \in downloads /\ x # w
        BY <2>4, <2>5
      <4>2. x.number \notin documentFiles[x.by] \union syncing[x.by] /\ x.by \in Computer
        BY <1>0, <1>w, <4>1 DEF Counting
      <4>3. x.by = w.by => x.number # f
        BY <2>3, <4>1
      <4> QED
        BY <2>6, <4>2, <4>3
    <3> QED
      BY <2>1, <3>1, <3>2, <3>3, <3>4 DEF Counting
  <2>12. NoneMet'
    <3> SUFFICES ASSUME NEW c \in Computer, c \notin overlapped'
                 PROVE  /\ \A x, y \in downloads' : x.by = c /\ y.by = c /\ Busy(x) /\ Busy(y) => x = y
                        /\ \A x \in downloads' : x.by = c /\ Busy(x) => syncing'[c] = {x.into} /\ writer'[c][x.into] = Pending(x)
                        /\ \A g \in documentFiles[c] : writer'[c][g] = 0
      BY <2>1 DEF NoneMet, Transfer!Whole, Busy, Pending
    <3>1. /\ \A x, y \in downloads : x.by = c /\ y.by = c /\ Busy(x) /\ Busy(y) => x = y
          /\ \A x \in downloads : x.by = c /\ Busy(x) => syncing[c] = {x.into} /\ writer[c][x.into] = Pending(x)
          /\ \A g \in documentFiles[c] : writer[c][g] = 0 /\ g \in Transfer!File
      BY <1>0, <2>1 DEF NoneMet, Transfer!Whole, Lying
    <3>2. CASE c = w.by
      <4>1. \A x \in downloads : x.by = c => ~Busy(x)
        BY <2>1, <3>2 DEF Busy
      <4>2. \A x \in downloads' : x.by = c /\ Busy(x) => x = v
        BY <2>5, <4>1
      <4>3. \A g \in documentFiles[c] : writer'[c][g] = 0
        BY <2>3, <2>7, <3>1, <3>2
      <4>4. \A x \in downloads' : x.by = c /\ Busy(x) => syncing'[c] = {x.into} /\ writer'[c][x.into] = Pending(x)
        BY <2>3, <2>4, <2>6, <2>7, <3>2, <4>2 DEF Pending
      <4> QED
        BY <4>2, <4>3, <4>4 DEF Busy
    <3>3. CASE c # w.by
      <4>1. \A x \in downloads' : x.by = c => x \in downloads
        BY <2>4, <2>5, <3>3
      <4>2. syncing'[c] = syncing[c] /\ \A g \in Transfer!File : writer'[c][g] = writer[c][g]
        BY <2>6, <2>7, <3>3
      <4> QED
        BY <1>w, <3>1, <4>1, <4>2
    <3> QED
      BY <3>2, <3>3
  <2> QED
    BY <1>a, <1>b, <1>e, <2>1, <2>8, <2>9, <2>10, <2>11, <2>12 DEF TransferInv
<1>14. ASSUME NEW w \in downloads, Transfer!MoveFile(w) PROVE TransferInv'
  <2>1. UNCHANGED <<object, storage, documentRows, writer, uploads, settling, deleted, overlapped, cutShort, given>>
        /\ w.at = "move" /\ downloads \ {w} \subseteq downloads'
    BY <1>14 DEF Transfer!MoveFile, Transfer!Goes
  <2>2. CASE syncing[w.by] = {}
    <3>1. UNCHANGED TheDisk /\ downloads' = downloads \ {w}
      BY <1>14, <2>1, <2>2 DEF Transfer!MoveFile, TheDisk
    <3>2. Lying'
      BY <1>0, <2>1, <3>1 DEF Lying, TheDisk, Transfer!Whole, Transfer!BeingWritten
    <3> QED
      BY <1>a, <1>b, <1>c, <1>d, <1>e, <1>g, <1>h, <2>1, <3>1, <3>2 DEF TransferInv, TheDisk
  <2>3. CASE syncing[w.by] # {}
    <3> DEFINE v == [w EXCEPT !.at = "row"]
    <3>1. v \in Downloads /\ v.by = w.by /\ v.number = w.number /\ v.at = "row"
      BY <1>w DEF Downloads
    <3>2. downloads' = (downloads \ {w}) \union {v}
      BY <1>14, <2>3 DEF Transfer!MoveFile, Transfer!Goes
    <3> HIDE DEF v
    <3>3. documentFiles' = [documentFiles EXCEPT ![w.by] = syncing[w.by]] /\ syncing' = [syncing EXCEPT ![w.by] = {}]
      BY <1>14, <2>3 DEF Transfer!MoveFile
    <3>4. /\ documentFiles' \in [Computer -> SUBSET Transfer!File] /\ syncing' \in [Computer -> SUBSET Transfer!File]
          /\ \A c \in Computer : documentFiles'[c] = IF c = w.by THEN syncing[c] ELSE documentFiles[c]
          /\ \A c \in Computer : syncing'[c] = IF c = w.by THEN {} ELSE syncing[c]
      BY <1>0, <1>w, <3>3 DEF Lying
    <3>5. Fetching'
      BY <1>0, <1>w, <2>1, <2>3, <3>1, <3>2, <3>4 DEF Fetching
    <3>6. Listing'
      BY <1>0, <2>1, <2>3, <3>4 DEF Listing
    <3>7. Lying'
      <4>1. \A c \in Computer : \A f \in syncing'[c] : f \notin documentFiles'[c]
        BY <1>0, <3>4 DEF Lying
      <4>2. \A c \in Computer : \A f \in Transfer!File : (Transfer!Whole(c, f) \/ Transfer!BeingWritten(c, f) \/ c \in cutShort)'
        BY <1>0, <2>1 DEF Lying, Transfer!Whole, Transfer!BeingWritten
      <4> QED
        BY <1>0, <2>1, <3>4, <4>1, <4>2 DEF Lying
    <3>8. Counting'
      BY <1>0, <1>w, <2>1, <3>1, <3>2, <3>4 DEF Counting
    <3>9. NoneMet'
      <4> SUFFICES ASSUME NEW c \in Computer, c \notin overlapped
                   PROVE  /\ \A x, y \in downloads' : x.by = c /\ y.by = c /\ Busy(x) /\ Busy(y) => x = y
                          /\ \A x \in downloads' : x.by = c /\ Busy(x) => syncing'[c] = {x.into} /\ writer[c][x.into] = Pending(x)
                          /\ \A g \in documentFiles'[c] : writer[c][g] = 0
        BY <2>1 DEF NoneMet, Transfer!Whole, Busy, Pending
      <4>1. /\ \A x, y \in downloads : x.by = c /\ y.by = c /\ Busy(x) /\ Busy(y) => x = y
            /\ \A x \in downloads : x.by = c /\ Busy(x) => syncing[c] = {x.into} /\ writer[c][x.into] = Pending(x)
            /\ \A g \in documentFiles[c] : writer[c][g] = 0
        BY <1>0 DEF NoneMet, Transfer!Whole
      <4>2. Busy(w) /\ ~Busy(v)
        BY <2>1, <3>1 DEF Busy
      <4>3. \A x \in downloads' : Busy(x) => x \in downloads /\ x # w
        BY <3>2, <4>2
      <4>4. CASE c = w.by
        <5>1. \A x \in downloads' : x.by = c => ~Busy(x)
          BY <4>1, <4>2, <4>3, <4>4
        <5>2. syncing[c] = {w.into} /\ writer[c][w.into] = 0
          BY <2>1, <4>1, <4>2, <4>4 DEF Pending
        <5> QED
          BY <3>4, <4>4, <5>1, <5>2 DEF Busy
      <4>5. CASE c # w.by
        BY <3>4, <4>1, <4>3, <4>5 DEF Busy
      <4> QED
        BY <4>4, <4>5
    <3> QED
      BY <1>a, <1>b, <1>e, <2>1, <3>5, <3>6, <3>7, <3>8, <3>9 DEF TransferInv
  <2> QED
    BY <2>2, <2>3
<1>9. ASSUME NEW w \in downloads, Transfer!InsertRow(w) PROVE TransferInv'
  <2>1. UNCHANGED <<object, storage, TheDisk, uploads, settling, deleted, overlapped, cutShort, given>>
        /\ w.at = "row" /\ downloads' = downloads \ {w}
    BY <1>9 DEF Transfer!InsertRow, TheDisk
  <2>2. documentFiles[w.by] # {} \/ w.by \in deleted
    BY <1>0, <2>1 DEF Fetching
  <2>3. documentRows' = [documentRows EXCEPT ![w.by] = IF documentRows[w.by] = "none" THEN "kept" ELSE documentRows[w.by]]
    BY <1>9 DEF Transfer!InsertRow
  <2>4. Listing'
    BY <1>0, <1>w, <2>1, <2>2, <2>3 DEF Listing, TheDisk
  <2>5. Lying'
    BY <1>0, <2>1 DEF Lying, TheDisk, Transfer!Whole, Transfer!BeingWritten
  <2> QED
    BY <1>a, <1>b, <1>c, <1>e, <1>g, <1>h, <2>1, <2>4, <2>5 DEF TransferInv, TheDisk
<1>10. ASSUME NEW c \in Computer, Transfer!RemoveFile(c) PROVE TransferInv'
  <2>1. UNCHANGED <<object, storage, documentRows, syncing, writer, uploads, downloads, overlapped, cutShort>>
    BY <1>10 DEF Transfer!RemoveFile
  <2>2. (documentFiles' = documentFiles \/ documentFiles' = [documentFiles EXCEPT ![c] = {}])
        /\ deleted' = deleted \union {c} /\ settling' = settling \union {c}
    BY <1>10 DEF Transfer!RemoveFile
  <2>3. Giving' /\ given'.downloads = given.downloads
    BY <1>0, <1>10, TransferAssumption DEF Transfer!RemoveFile, Giving
  <2>4. documentFiles' \in [Computer -> SUBSET Transfer!File]
        /\ \A b \in Computer : documentFiles'[b] \subseteq documentFiles[b] /\ (b # c => documentFiles'[b] = documentFiles[b])
    BY <1>0, <2>2 DEF Lying
  <2>5. Listing'
    BY <1>0, <2>1, <2>2, <2>4 DEF Listing
  <2>6. Fetching'
    BY <1>0, <1>w, <2>1, <2>2, <2>4 DEF Fetching
  <2>7. Lying'
    BY <1>0, <2>1, <2>4 DEF Lying, Transfer!Whole, Transfer!BeingWritten
  <2>8. Counting'
    BY <1>0, <1>w, <2>1, <2>3, <2>4 DEF Counting
  <2>9. NoneMet'
    BY <1>0, <2>1, <2>4 DEF NoneMet, Transfer!Whole
  <2> QED
    BY <1>a, <1>b, <2>1, <2>3, <2>5, <2>6, <2>7, <2>8, <2>9 DEF TransferInv
<1>11. ASSUME NEW c \in Computer, Transfer!ShredRow(c) PROVE TransferInv'
  <2>1. UNCHANGED <<object, storage, TheDisk, uploads, downloads, deleted, overlapped, cutShort, given>>
        /\ settling' \subseteq settling /\ documentRows' = [documentRows EXCEPT ![c] = "deleted"]
    BY <1>11 DEF Transfer!ShredRow, TheDisk
  <2>2. Listing'
    BY <1>0, <2>1 DEF Listing, TheDisk
  <2> QED
    BY <1>a, <1>b, <1>i, <1>g, <1>e, <2>1, <2>2 DEF TransferInv, TheDisk
<1>12. ASSUME Transfer!Fail \/ \E c \in Computer : Transfer!Stop(c) PROVE TransferInv'
  <2>1. UNCHANGED <<object, storage, documentRows, TheDisk, deleted, overlapped, given>>
        /\ uploads' \subseteq uploads /\ downloads' \subseteq downloads /\ settling' \subseteq settling
    BY <1>12 DEF Transfer!Fail, Transfer!Stop, TheDisk
  <2>2. cutShort \subseteq cutShort' /\ cutShort' \subseteq Computer
        /\ \A w \in downloads : w.at = "write" => w \in downloads' \/ w.by \in cutShort'
    <3>1. CASE Transfer!Fail
      BY <1>0, <1>w, <3>1 DEF Transfer!Fail, Listing
    <3>2. ASSUME NEW c \in Computer, Transfer!Stop(c) PROVE <2>2
      BY <1>0, <3>2 DEF Transfer!Stop, Listing
    <3> QED
      BY <1>12, <3>1, <3>2
  <2>3. Listing'
    BY <1>0, <2>1, <2>2 DEF Listing, TheDisk
  <2>4. Lying'
    <3>1. ASSUME NEW c \in Computer, NEW f \in Transfer!File PROVE (Transfer!Whole(c, f) \/ Transfer!BeingWritten(c, f) \/ c \in cutShort)'
      <4>1. Transfer!Whole(c, f) \/ Transfer!BeingWritten(c, f) \/ c \in cutShort
        BY <1>0 DEF Lying
      <4>2. UNCHANGED writer
        BY <2>1 DEF TheDisk
      <4> QED
        BY <2>2, <4>1, <4>2 DEF Transfer!Whole, Transfer!BeingWritten
    <3> QED
      BY <1>0, <2>1, <3>1 DEF Lying, TheDisk
  <2> QED
    BY <1>a, <1>b, <1>c, <1>e, <1>g, <1>h, <2>1, <2>3, <2>4 DEF TransferInv, TheDisk
<1> QED
  BY <1>1, <1>2, <1>3, <1>4, <1>5, <1>6, <1>7, <1>8, <1>9, <1>10, <1>11, <1>12, <1>13, <1>14 DEF Transfer!Next

\* A computer that lists the document has its file, unless the student had it deleted there, and a
\* complete document keeps its chunks: sync_transport.rs and app.ts, whoever sends, fetches and stops.
THEOREM TransfersHold == Transfer!Spec => []Transfer!DocumentHolds
BY TransferInit, TransferNext, TransferImplies, PTL DEF Transfer!Spec

-----------------------------------------------------------------------------
(* The upgrade of a profile.  What holds at each step of opening the file,  *)
(* where what is open about a document depends on the version that is not   *)
(* written yet.                                                             *)

\* A step is reached when what comes before it is there.
SchemaFollows ==
  /\ version \in Nat
  /\ at \in {"profile", "version", "running"} => schemaMade = Upgrade!Schema
  /\ at \in {"version", "running"} => ~unique /\ reviewed
  /\ at = "running" => version = CurrentVersion

\* Of a version that asks, exactly the open documents are undecided; of an older one none is, and
\* none is open once they have all been kept.
DocumentsFollow ==
  /\ undecided \subseteq DOMAIN retention
  /\ version >= RetentionVersion =>
       \A d \in DOMAIN retention : retention[d] # None /\ (retention[d] = "ask" <=> d \in undecided)
  /\ version < RetentionVersion =>
       /\ undecided = {}
       /\ at \in {"parts", "profile", "version"} => \A d \in DOMAIN retention : retention[d] \notin {None, "ask"}

\* What the student did not touch is in the workspace until it has been reviewed, not after.
SamplesFollow ==
  /\ samples \in [Sample -> Upgrade!Places]
  /\ samplesWanted \subseteq Sample
  /\ \A s \in Sample : samples[s] \in {"edited", "restored"} <=> s \in samplesWanted
  /\ \A s \in Sample : samples[s] = "restored" => reviewed
  /\ \A s \in Sample : samples[s] = "untouched" => ~reviewed

UpgradeInv == SchemaFollows /\ DocumentsFollow /\ SamplesFollow

\* The invariant implies what an upgrade promises.
LEMMA UpgradeImplies == UpgradeInv => Upgrade!UpgradeKeeps
  BY UpgradeAssumption DEF UpgradeInv, SchemaFollows, DocumentsFollow, SamplesFollow, Upgrade!UpgradeKeeps, Upgrade!Schema

\* A file of any build satisfies it.
LEMMA UpgradeInit == Upgrade!Init => UpgradeInv
<1> SUFFICES ASSUME Upgrade!Init PROVE UpgradeInv
  OBVIOUS
<1>1. SchemaFollows
  BY UpgradeAssumption DEF Upgrade!Init, SchemaFollows
<1>2. DocumentsFollow
  <2>1. PICK old \in SUBSET Document :
          retention \in [old -> IF version < RetentionVersion THEN {None} ELSE {"ask", "keep_encrypted"}]
    BY DEF Upgrade!Init
  <2> QED
    BY <2>1, UpgradeAssumption DEF Upgrade!Init, DocumentsFollow
<1>3. SamplesFollow
  <2>1. samples \in [Sample -> Upgrade!Places]
    BY DEF Upgrade!Init, Upgrade!Places
  <2> QED
    BY <2>1, UpgradeAssumption DEF Upgrade!Init, SamplesFollow, Upgrade!Places
<1> QED
  BY <1>1, <1>2, <1>3 DEF UpgradeInv

\* Every step preserves it.
LEMMA UpgradeNext == UpgradeInv /\ [Upgrade!Next]_(Upgrade!vars) => UpgradeInv'
<1> SUFFICES ASSUME UpgradeInv, [Upgrade!Next]_(Upgrade!vars) PROVE UpgradeInv'
  OBVIOUS
<1> USE UpgradeAssumption DEF UpgradeInv, SchemaFollows, DocumentsFollow, SamplesFollow
<1>1. CASE UNCHANGED Upgrade!vars
  BY <1>1 DEF Upgrade!vars, Upgrade!Schema
<1>2. CASE Upgrade!Open
  BY <1>2 DEF Upgrade!Open, Upgrade!Schema
<1>3. CASE Upgrade!MakeTables
  BY <1>3 DEF Upgrade!MakeTables, Upgrade!Schema
<1>4. CASE Upgrade!AddRetentionColumn
  BY <1>4 DEF Upgrade!AddRetentionColumn, Upgrade!Schema
<1>5. CASE Upgrade!KeepOldDocuments
  BY <1>5 DEF Upgrade!KeepOldDocuments, Upgrade!PredatesRetention, Upgrade!Schema
<1>6. CASE Upgrade!AddPart
  BY <1>6 DEF Upgrade!AddPart, Upgrade!Schema
<1>7. CASE Upgrade!MigrateProfile
  <2>1. SchemaFollows' /\ DocumentsFollow'
    BY <1>7 DEF Upgrade!MigrateProfile, Upgrade!RebuildLegacyCoursesTable, Upgrade!QuarantineUntouchedLegacyDemo, Upgrade!Schema
  <2>2. SamplesFollow'
    BY <1>7 DEF Upgrade!MigrateProfile, Upgrade!QuarantineUntouchedLegacyDemo, Upgrade!Places
  <2> QED
    BY <2>1, <2>2
<1>8. CASE Upgrade!WriteVersion
  BY <1>8 DEF Upgrade!WriteVersion, Upgrade!Schema
<1>9. CASE Upgrade!Stop
  BY <1>9 DEF Upgrade!Stop, Upgrade!Schema
<1>10. ASSUME NEW d \in Document, Upgrade!Import(d) PROVE UpgradeInv'
  BY <1>10 DEF Upgrade!Import, Upgrade!Schema
<1>11. ASSUME NEW d \in DOMAIN retention, NEW decision \in {"keep_encrypted", "delete_now"}, Upgrade!Settle(d, decision)
       PROVE UpgradeInv'
  BY <1>11 DEF Upgrade!Settle, Upgrade!Schema
<1>12. ASSUME NEW ids \in SUBSET Sample \ {{}}, Upgrade!RestoreQuarantine(ids) PROVE UpgradeInv'
  <2>1. SchemaFollows' /\ DocumentsFollow'
    BY <1>12 DEF Upgrade!RestoreQuarantine, Upgrade!Schema
  <2>2. SamplesFollow'
    BY <1>12 DEF Upgrade!RestoreQuarantine, Upgrade!Places
  <2> QED
    BY <2>1, <2>2
<1>13. CASE Upgrade!PurgeQuarantine
  <2>1. SchemaFollows' /\ DocumentsFollow'
    BY <1>13 DEF Upgrade!PurgeQuarantine, Upgrade!Schema
  <2>2. SamplesFollow'
    BY <1>13 DEF Upgrade!PurgeQuarantine, Upgrade!Places
  <2> QED
    BY <2>1, <2>2
<1> QED
  BY <1>1, <1>2, <1>3, <1>4, <1>5, <1>6, <1>7, <1>8, <1>9, <1>10, <1>11, <1>12, <1>13 DEF Upgrade!Next

\* Whatever build wrote the file and however often opening it was cut off: once the program runs,
\* the schema is whole, the promised questions are open and the student's samples are where they were.
THEOREM UpgradesKeep == Upgrade!Spec => []Upgrade!UpgradeKeeps
<1>1. Upgrade!Init => UpgradeInv
  BY UpgradeInit
<1>2. UpgradeInv /\ [Upgrade!Next]_(Upgrade!vars) => UpgradeInv'
  BY UpgradeNext
<1>3. UpgradeInv => Upgrade!UpgradeKeeps
  BY UpgradeImplies
<1> QED
  BY <1>1, <1>2, <1>3, PTL DEF Upgrade!Spec

\* The steps of opening a file have these types, whichever build wrote it.
LEMMA UpgradeTypesInit == Upgrade!Init => Upgrade!TypeOK
<1> SUFFICES ASSUME Upgrade!Init PROVE Upgrade!TypeOK
  OBVIOUS
<1>1. PICK old \in SUBSET Document :
        retention \in [old -> IF version < RetentionVersion THEN {None} ELSE {"ask", "keep_encrypted"}]
  BY DEF Upgrade!Init
<1>2. DOMAIN retention = old
  BY <1>1
<1>3. \A d \in DOMAIN retention : retention[d] \in {None, "ask", "keep_encrypted", "delete_now"}
  BY <1>1, <1>2
<1>4. schemaMade \subseteq Upgrade!Schema /\ unique \in BOOLEAN /\ reviewed \in BOOLEAN
  BY DEF Upgrade!Init, Upgrade!Schema
<1>5. samples \in [Sample -> Upgrade!Places]
  BY DEF Upgrade!Init, Upgrade!Places
<1> QED
  BY <1>2, <1>3, <1>4, <1>5 DEF Upgrade!Init, Upgrade!TypeOK

\* Every step keeps them.
LEMMA UpgradeTypesNext == Upgrade!TypeOK /\ [Upgrade!Next]_(Upgrade!vars) => Upgrade!TypeOK'
<1> SUFFICES ASSUME Upgrade!TypeOK, [Upgrade!Next]_(Upgrade!vars) PROVE Upgrade!TypeOK'
  OBVIOUS
<1> USE DEF Upgrade!TypeOK
<1>1. CASE UNCHANGED Upgrade!vars
  BY <1>1 DEF Upgrade!vars, Upgrade!Schema, Upgrade!Places
<1>2. CASE Upgrade!Open
  BY <1>2 DEF Upgrade!Open, Upgrade!Schema, Upgrade!Places
<1>3. CASE Upgrade!MakeTables
  BY <1>3 DEF Upgrade!MakeTables, Upgrade!Schema, Upgrade!Places
<1>4. CASE Upgrade!AddRetentionColumn
  BY <1>4 DEF Upgrade!AddRetentionColumn, Upgrade!Schema, Upgrade!Places
<1>5. CASE Upgrade!KeepOldDocuments
  BY <1>5 DEF Upgrade!KeepOldDocuments, Upgrade!Schema, Upgrade!Places
<1>6. CASE Upgrade!AddPart
  BY <1>6 DEF Upgrade!AddPart, Upgrade!Schema, Upgrade!Places
<1>7. CASE Upgrade!MigrateProfile
  BY <1>7 DEF Upgrade!MigrateProfile, Upgrade!RebuildLegacyCoursesTable, Upgrade!QuarantineUntouchedLegacyDemo,
              Upgrade!Schema, Upgrade!Places
<1>8. CASE Upgrade!WriteVersion
  BY <1>8 DEF Upgrade!WriteVersion, Upgrade!Schema, Upgrade!Places
<1>9. CASE Upgrade!Stop
  BY <1>9 DEF Upgrade!Stop, Upgrade!Schema, Upgrade!Places
<1>10. ASSUME NEW d \in Document, Upgrade!Import(d) PROVE Upgrade!TypeOK'
  BY <1>10 DEF Upgrade!Import, Upgrade!Schema, Upgrade!Places
<1>11. ASSUME NEW d \in DOMAIN retention, NEW decision \in {"keep_encrypted", "delete_now"},
              Upgrade!Settle(d, decision)
       PROVE Upgrade!TypeOK'
  BY <1>11 DEF Upgrade!Settle, Upgrade!Schema, Upgrade!Places
<1>12. ASSUME NEW ids \in SUBSET Sample \ {{}}, Upgrade!RestoreQuarantine(ids) PROVE Upgrade!TypeOK'
  BY <1>12 DEF Upgrade!RestoreQuarantine, Upgrade!Schema, Upgrade!Places
<1>13. CASE Upgrade!PurgeQuarantine
  BY <1>13 DEF Upgrade!PurgeQuarantine, Upgrade!Schema, Upgrade!Places
<1> QED
  BY <1>1, <1>2, <1>3, <1>4, <1>5, <1>6, <1>7, <1>8, <1>9, <1>10, <1>11, <1>12, <1>13 DEF Upgrade!Next
=============================================================================
