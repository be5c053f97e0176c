----------------------------- MODULE AccessParts -----------------------------
(***************************************************************************)
(* Who may use the program and the account, side by side: the PIN, the key *)
(* of the database, the account's session and its computers.  Variables    *)
(* and constants of one name in two parts get the part's name; those of    *)
(* DeviceKey are its own.                                                  *)
(***************************************************************************)
EXTENDS DeviceKey, DesktopShared

CONSTANTS PinCode, Caller, MaxDelay, MaxPinTime, MaxPinStops, MaxPinFailures

ASSUME PinAssumption == None \notin Caller /\ MaxDelay \in Nat

VARIABLES file, previous, temporary, pinLocked, running, command, unrestored, callers, failed, retryAt, holder,
          pinNow, pinExpected, pinStops, pinFailures
pinVars == <<file, previous, temporary, pinLocked, running, command, unrestored, callers, failed,
             retryAt, holder, pinNow, pinExpected, pinStops, pinFailures>>

Pin == INSTANCE PinGate WITH
  Pin <- PinCode, MaxTime <- MaxPinTime, MaxStops <- MaxPinStops, MaxFailures <- MaxPinFailures,
  locked <- pinLocked, now <- pinNow, expected <- pinExpected, stops <- pinStops, failures <- pinFailures

-----------------------------------------------------------------------------
CONSTANTS User, FlowLifetime, MaxTokens, MaxFlows, MaxAccountTime, MaxAccountStops, MaxAccountFailures

VARIABLES accountNow, accountLocked, session, accountStored, available, email, google, callback,
          call, good, tokens, flows, lost, wanted, accountStops, accountFailures
accountVars == <<accountNow, accountLocked, session, accountStored, available, email, google,
                 callback, call, good, tokens, flows, lost, wanted, accountStops, accountFailures>>

Account == INSTANCE AccountSession WITH
  Account <- User, MaxTime <- MaxAccountTime, MaxStops <- MaxAccountStops, MaxFailures <- MaxAccountFailures,
  now <- accountNow, locked <- accountLocked, stored <- accountStored,
  stops <- accountStops, failures <- accountFailures

-----------------------------------------------------------------------------
CONSTANTS Device, PageSize, MaxAccountKeys, MaxRows, MaxRevoked, MaxExpired, MaxFaults, MaxTogether

ASSUME DevicesAssumption ==
  /\ Device \subseteq Nat /\ None \notin Device
  /\ PageSize \in Nat \ {0}
  /\ {MaxAccountKeys, MaxRows, MaxRevoked, MaxExpired, MaxFaults, MaxTogether} \subseteq Nat

VARIABLES devicesVault, profile, phrases, devices, envelopes, deviceRows, deviceCalls,
          devicesRevoked, expired, faults
devicesVars == <<devicesVault, profile, phrases, devices, envelopes, deviceRows, deviceCalls,
                 devicesRevoked, expired, faults>>

Devices == INSTANCE AccountDevices WITH
  MaxKeys <- MaxAccountKeys,
  vault <- devicesVault, rows <- deviceRows, calls <- deviceCalls, revoked <- devicesRevoked
=============================================================================
