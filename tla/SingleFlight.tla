---------------------------- MODULE SingleFlight ----------------------------
(***************************************************************************)
(* What a pool promises whoever asks it for a server, with none of the     *)
(* machinery: within a process one caller at a time makes the value of a   *)
(* key, and only while there is none; whoever asks meanwhile waits for     *)
(* that caller, and asks again only once it is through, however it ended;  *)
(* whoever asks later is given the same value; and no value is ever given  *)
(* under two keys, by two processes or again.  Pool.tla is shown to        *)
(* implement this module.                                                  *)
(***************************************************************************)
EXTENDS Naturals

CONSTANTS
  Instances,  \* processes, each with a pool
  Callers,    \* who asks
  HostOf,     \* HostOf[x]: the process x asks in
  Keys,       \* what for
  Values,     \* numbers of what can be made, 0 is none of them
  NoOne       \* nobody, and no key

VARIABLES
  cached,     \* cached[p][k]: what p gives out for k, or 0
  flight,     \* flight[p][k]: who makes it
  at,         \* at[x]: "idle", "waiting", "making" or "done"
  wants,      \* wants[x]: the key x asked for
  waitsFor,   \* waitsFor[x]: whose flight x joined
  given,      \* given[x]: what x got, 0 for an error
  spent       \* values that were given out, or lost

SingleFlightVars == <<cached, flight, at, wants, waitsFor, given, spent>>

SingleFlightInit ==
  /\ cached = [p \in Instances |-> [k \in Keys |-> 0]]
  /\ flight = [p \in Instances |-> [k \in Keys |-> NoOne]]
  /\ at = [x \in Callers |-> "idle"]
  /\ wants = [x \in Callers |-> NoOne]
  /\ waitsFor = [x \in Callers |-> NoOne]
  /\ given = [x \in Callers |-> 0]
  /\ spent = {}

\* There is a value.
Hit(x, k) ==
  /\ cached[HostOf[x]][k] # 0
  /\ given' = [given EXCEPT ![x] = cached[HostOf[x]][k]]
  /\ at' = [at EXCEPT ![x] = "done"]
  /\ UNCHANGED <<flight, waitsFor>>

\* Somebody is making one.
Join(x, k) ==
  /\ cached[HostOf[x]][k] = 0 /\ flight[HostOf[x]][k] # NoOne
  /\ at[flight[HostOf[x]][k]] = "making"
  /\ waitsFor' = [waitsFor EXCEPT ![x] = flight[HostOf[x]][k]]
  /\ at' = [at EXCEPT ![x] = "waiting"]
  /\ UNCHANGED <<flight, given>>

\* Nobody is, so x does.
TakeOff(x, k) ==
  /\ cached[HostOf[x]][k] = 0 /\ flight[HostOf[x]][k] = NoOne
  /\ flight' = [flight EXCEPT ![HostOf[x]][k] = x]
  /\ at' = [at EXCEPT ![x] = "making"]
  /\ UNCHANGED <<waitsFor, given>>

Ask(x) ==
  /\ at[x] = "idle"
  /\ \E k \in Keys :
       /\ wants' = [wants EXCEPT ![x] = k]
       /\ Hit(x, k) \/ Join(x, k) \/ TakeOff(x, k)
  /\ UNCHANGED <<cached, spent>>

\* Who waited looks again once the flight it joined is over.
AskAgain(x) ==
  /\ at[x] = "waiting" /\ at[waitsFor[x]] = "done"
  /\ Hit(x, wants[x]) \/ Join(x, wants[x]) \/ TakeOff(x, wants[x])
  /\ UNCHANGED <<cached, wants, spent>>

GiveUp(x) ==
  /\ at[x] = "waiting"
  /\ at' = [at EXCEPT ![x] = "done"]
  /\ waitsFor' = [waitsFor EXCEPT ![x] = NoOne]
  /\ UNCHANGED <<cached, flight, wants, given, spent>>

\* x is through, and no longer the one who makes the key's value.
Landed(x) ==
  /\ at[x] = "making" /\ flight[HostOf[x]][wants[x]] = x
  /\ at' = [at EXCEPT ![x] = "done"]
  /\ flight' = [flight EXCEPT ![HostOf[x]][wants[x]] = NoOne]
  /\ UNCHANGED <<wants, waitsFor>>

\* With a value, a new one.
Land(x) ==
  /\ Landed(x)
  /\ cached[HostOf[x]][wants[x]] = 0
  /\ \E v \in Values \ spent :
       /\ cached' = [cached EXCEPT ![HostOf[x]][wants[x]] = v]
       /\ given' = [given EXCEPT ![x] = v]
       /\ spent' = spent \union {v}

\* Without one.
Fail(x) ==
  /\ Landed(x)
  /\ given' = [given EXCEPT ![x] = 0]
  /\ UNCHANGED <<cached, spent>>

\* A value that was being made is lost.
Waste ==
  /\ spent' \in SUBSET Values /\ spent \subseteq spent'
  /\ UNCHANGED <<cached, flight, at, wants, waitsFor, given>>

\* p's pool is emptied; whoever makes a value goes on.
Empty(p) ==
  /\ cached' = [cached EXCEPT ![p] = [k \in Keys |-> 0]]
  /\ UNCHANGED <<flight, at, wants, waitsFor, given, spent>>

\* p ends, and its callers with it.
End(p) ==
  LET here(x) == HostOf[x] = p IN
  /\ cached' = [cached EXCEPT ![p] = [k \in Keys |-> 0]]
  /\ flight' = [flight EXCEPT ![p] = [k \in Keys |-> NoOne]]
  /\ at' = [x \in Callers |-> IF here(x) THEN "idle" ELSE at[x]]
  /\ wants' = [x \in Callers |-> IF here(x) THEN NoOne ELSE wants[x]]
  /\ waitsFor' = [x \in Callers |-> IF here(x) THEN NoOne ELSE waitsFor[x]]
  /\ given' = [x \in Callers |-> IF here(x) THEN 0 ELSE given[x]]
  /\ spent' \in SUBSET Values /\ spent \subseteq spent'

SingleFlightNext ==
  \/ \E x \in Callers : Ask(x) \/ AskAgain(x) \/ GiveUp(x) \/ Land(x) \/ Fail(x)
  \/ \E p \in Instances : Empty(p) \/ End(p)
  \/ Waste

SingleFlightSpec == SingleFlightInit /\ [][SingleFlightNext]_SingleFlightVars
=============================================================================
