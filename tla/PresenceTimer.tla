---------------------------- MODULE PresenceTimer ----------------------------
(***************************************************************************)
(* The timer of pollUsbPresence (app/main.cpp:1277-1296).  SDL_GetTicks    *)
(* counts milliseconds in 32 bits and wraps; the next check is compared    *)
(* with it as a signed difference.  Acquisition and demo mode suspend the  *)
(* checks for any time.  Application keeps of all this that the interval   *)
(* has passed; here is when that is true.                                  *)
(***************************************************************************)
EXTENDS Integers

Ticks == 4294967296                 \* of uint32_t
kUsbPresenceIntervalMs == 1000

VARIABLES
    now,                \* milliseconds since SDL was initialised
    nextPresenceCheck,  \* the tick of the next check
    suspended,          \* demoMode or acquisitionRunning
    lastCheck           \* the time of the last check, a ghost
vars == <<now, nextPresenceCheck, suspended, lastCheck>>

SDL_GetTicks == now % Ticks

Schedule == /\ nextPresenceCheck' =
                 (SDL_GetTicks + kUsbPresenceIntervalMs) % Ticks
            /\ lastCheck' = now

Init == /\ now \in Nat /\ lastCheck = now
        /\ nextPresenceCheck = (SDL_GetTicks + kUsbPresenceIntervalMs) % Ticks
        /\ suspended = FALSE

\* The signed difference of main.cpp:1293 is not negative.
Expired == (SDL_GetTicks - nextPresenceCheck) % Ticks < Ticks \div 2

TimePasses == /\ \E ms \in Nat : now' = now + ms
              /\ UNCHANGED <<nextPresenceCheck, suspended, lastCheck>>

SuspendOrResume == /\ suspended' = ~suspended
                   /\ UNCHANGED <<now, nextPresenceCheck, lastCheck>>

Check == /\ ~suspended /\ Expired
         /\ Schedule
         /\ UNCHANGED <<now, suspended>>

Next == TimePasses \/ SuspendOrResume \/ Check

Spec == Init /\ [][Next]_vars

-----------------------------------------------------------------------------
Since == now - lastCheck

Inv == /\ now \in Nat /\ lastCheck \in Nat /\ lastCheck <= now
       /\ nextPresenceCheck = (lastCheck + kUsbPresenceIntervalMs) % Ticks

\* The interval is measured rightly, across every wrap of the ticks, as long
\* as the last check is not more than 2^31 ms (about 25 days) overdue.
ExpiredInTime ==
    Since < kUsbPresenceIntervalMs + Ticks \div 2
        => (Expired <=> Since >= kUsbPresenceIntervalMs)

\* Two checks are never closer than the interval.
ApartAction == Check => Since >= kUsbPresenceIntervalMs

\* A run or demonstration that suspends the checks for more than 2^31 ms
\* leaves them off: until the ticks come round, 2^32 ms after the last check
\* was due, pollUsbPresence does not look for the device.
LeftOff ==
    Since >= kUsbPresenceIntervalMs + Ticks \div 2
        => (Since < kUsbPresenceIntervalMs + Ticks => ~Expired)
=============================================================================
