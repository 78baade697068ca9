----------------------------- MODULE BasepriLock -----------------------------
(***************************************************************************)
(* Preemption and resource locking on armv7-m and above: the NVIC, the     *)
(* `run` wrapper around every handler, and `lock` by BASEPRI or, for the   *)
(* highest ceiling, by PRIMASK (rticx-cortex-m/src/export.rs, mod          *)
(* basepri).  A step is one access to a register, so that an interrupt may *)
(* arrive between any two of them.                                         *)
(***************************************************************************)
EXTENDS CoreAnalysis, Sequences

CONSTANT MaxNest  \* bound on the locks one task nests

ASSUME MaxNestAssumption == MaxNest \in Nat \ {0}

VARIABLES
  pending,  \* NVIC pending bits
  pc,       \* "off", "entry" (before run's read) or "body" of every actor
  initial,  \* run's local `initial`: BASEPRI to write back on return
  locks,    \* the calls of `lock` each actor is inside of, outermost first
  basepri,  \* BASEPRI, 0 masks nothing
  primask   \* PRIMASK, 1 masks everything

vars == <<pending, pc, initial, locks, basepri, primask>>

Hw == 0 .. 255

(* A call of `lock`: saved is its local `current` (BASEPRI, or PRIMASK for *)
(* interrupt::free); the closure runs while raised is TRUE.                *)
LockCall == [res : Resources, free : BOOLEAN, saved : Hw, raised : BOOLEAN]

TypeOK ==
  /\ pending \subseteq Tasks
  /\ pc \in [Actors -> {"off", "entry", "body"}]
  /\ pc[Idle] = "body"
  /\ initial \in [Actors -> Hw]
  /\ locks \in [Actors -> Seq(LockCall)]
  /\ basepri \in Hw
  /\ primask \in {0, 1}

Init ==
  /\ pending = {}
  /\ pc = [a \in Actors |-> IF a = Idle THEN "body" ELSE "off"]
  /\ initial = [a \in Actors |-> 0]
  /\ locks = [a \in Actors |-> <<>>]
  /\ basepri = 0
  /\ primask = 0

-----------------------------------------------------------------------------
(* The processor (external).                                               *)

Active(a) == pc[a] # "off"

Running(a) ==
  /\ Active(a)
  /\ \A b \in Actors : Active(b) /\ b # a => ExecPriority[a] < ExecPriority[b]

MaskedBy(level, t) == level # 0 /\ ExecPriority[t] >= level

Takable(t) ==
  /\ t \in pending
  /\ primask = 0
  /\ ~ MaskedBy(basepri, t)
  /\ \A a \in Actors : Active(a) => ExecPriority[t] < ExecPriority[a]

(* Mutant: BASEPRI is written instead of BASEPRI_MAX.                      *)
BasepriPlain(level) == level

(* BASEPRI_MAX ignores a write that would not raise the mask.              *)
BasepriMax(level) ==
  IF level # 0 /\ (basepri = 0 \/ level < basepri) THEN level ELSE basepri

(* A peripheral, or NVIC::pend, sets the pending bit.                      *)
Pend(t) ==
  /\ t \notin pending
  /\ pending' = pending \cup {t}
  /\ UNCHANGED <<pc, initial, locks, basepri, primask>>

(* Exception entry: the most urgent interrupt that nothing masks.          *)
Preempt(t) ==
  /\ Takable(t)
  /\ \A u \in Tasks : Takable(u) => ExecPriority[t] <= ExecPriority[u]
  /\ pending' = pending \ {t}
  /\ pc' = [pc EXCEPT ![t] = "entry"]
  /\ UNCHANGED <<initial, locks, basepri, primask>>

-----------------------------------------------------------------------------
(* Mutant: run always puts 0 back.                                         *)
RunSavesNothing(t) == 0

(* run: what is written to BASEPRI when a handler returns is the value     *)
(* read on entry, or 0 without reading when the priority is 1.             *)
RunSaves(t) == IF IrqPriority(t) % 256 = 1 THEN 0 ELSE basepri

RunEntry(t) ==
  /\ Running(t)
  /\ pc[t] = "entry"
  /\ initial' = [initial EXCEPT ![t] = RunSaves(t)]
  /\ pc' = [pc EXCEPT ![t] = "body"]
  /\ UNCHANGED <<pending, locks, basepri, primask>>

RunExit(t) ==
  /\ Running(t)
  /\ pc[t] = "body"
  /\ locks[t] = <<>>
  /\ basepri' = initial[t]
  /\ initial' = [initial EXCEPT ![t] = 0]
  /\ pc' = [pc EXCEPT ![t] = "off"]
  /\ UNCHANGED <<pending, locks, primask>>

-----------------------------------------------------------------------------
(* lock                                                                    *)

Last(s) == s[Len(s)]
ButLast(s) == SubSeq(s, 1, Len(s) - 1)

(* The actor is in the code of a task or of a closure, not inside `lock`.  *)
InBody(a) ==
  /\ Running(a)
  /\ pc[a] = "body"
  /\ locks[a] # <<>> => Last(locks[a]).raised

(* shared(&self) hands out a new proxy at every call, so nothing stops a   *)
(* closure from locking the resource it already has.                       *)
CanLock(a, r) ==
  /\ InBody(a)
  /\ r \in Uses[a]
  /\ Len(locks[a]) < MaxNest

(* Mutant: the top ceiling is left to BASEPRI.                             *)
UsesFreeAbove(r) == Ceiling[r] % 256 > Levels

(* (1 << nvic_prio_bits) == ceiling                                        *)
UsesFree(r) == Ceiling[r] % 256 = Levels

(* interrupt::free: PRIMASK is read and set.                               *)
LockFree(a, r) ==
  /\ CanLock(a, r)
  /\ UsesFree(r)
  /\ locks' = [locks EXCEPT ![a] =
       Append(@, [res |-> r, free |-> TRUE, saved |-> primask, raised |-> TRUE])]
  /\ primask' = 1
  /\ UNCHANGED <<pending, pc, initial, basepri>>

(* let current = basepri::read()                                           *)
LockRead(a, r) ==
  /\ CanLock(a, r)
  /\ ~ UsesFree(r)
  /\ locks' = [locks EXCEPT ![a] =
       Append(@, [res |-> r, free |-> FALSE, saved |-> basepri, raised |-> FALSE])]
  /\ UNCHANGED <<pending, pc, initial, basepri, primask>>

(* basepri_max::write(cortex_logical2hw(ceiling)); the closure starts.     *)
LockRaise(a) ==
  /\ Running(a)
  /\ locks[a] # <<>>
  /\ ~ Last(locks[a]).raised
  /\ basepri' = BasepriMax(cortex_logical2hw(Ceiling[Last(locks[a]).res]))
  /\ locks' = [locks EXCEPT ![a][Len(locks[a])].raised = TRUE]
  /\ UNCHANGED <<pending, pc, initial, primask>>

(* Mutant: nothing is restored.                                            *)
KeepsPrimask(call) == primask
KeepsBasepri(call) == basepri

RestoredPrimask(call) == IF call.free THEN call.saved ELSE primask
RestoredBasepri(call) == IF call.free THEN basepri ELSE call.saved

(* The closure returns and what `lock` saved is written back.              *)
Unlock(a) ==
  /\ InBody(a)
  /\ locks[a] # <<>>
  /\ basepri' = RestoredBasepri(Last(locks[a]))
  /\ primask' = RestoredPrimask(Last(locks[a]))
  /\ locks' = [locks EXCEPT ![a] = ButLast(@)]
  /\ UNCHANGED <<pending, pc, initial>>

-----------------------------------------------------------------------------
Next ==
  \/ \E t \in Tasks : Pend(t) \/ Preempt(t) \/ RunEntry(t) \/ RunExit(t)
  \/ \E a \in Actors, r \in Resources : LockFree(a, r) \/ LockRead(a, r)
  \/ \E a \in Actors : LockRaise(a) \/ Unlock(a)

(* Closures and handlers terminate, and the NVIC takes a pending interrupt *)
(* as soon as nothing masks it: it is not overtaken forever by the code    *)
(* that runs between two chances.                                          *)
Fairness ==
  /\ \A t \in Tasks :
       SF_vars(Preempt(t)) /\ WF_vars(RunEntry(t)) /\ SF_vars(RunExit(t))
  /\ \A a \in Actors : WF_vars(LockRaise(a)) /\ SF_vars(Unlock(a))

Spec == Init /\ [][Next]_vars
FairSpec == Spec /\ Fairness

-----------------------------------------------------------------------------
(* The resources whose closures an actor is inside of.                     *)
Holds(a, r) ==
  \E i \in 1 .. Len(locks[a]) : locks[a][i].res = r /\ locks[a][i].raised

(* README.md:116 "Data-race-free memory sharing": two actors are never     *)
(* inside closures of `lock` on the same resource, however interrupts      *)
(* preempt the statements of `lock` and `run`.                             *)
MutualExclusion ==
  \A a, b \in Actors, r \in Resources : Holds(a, r) /\ Holds(b, r) => a = b

(* BASEPRI is exactly the system ceiling, the most urgent ceiling of the   *)
(* closures now being run by anybody, and PRIMASK is set exactly inside a  *)
(* closure of the top ceiling: whatever `lock` and `run` saved and wrote   *)
(* back in between, no protection is lost and no mask is left behind (in   *)
(* particular the 0 that `run` writes for priority 1 is the right value).  *)
Raised(free) ==
  {cortex_logical2hw(Ceiling[r]) : r \in {s \in Resources :
     \E a \in Actors : \E i \in 1 .. Len(locks[a]) :
       locks[a][i].res = s /\ locks[a][i].free = free /\ locks[a][i].raised}}

SystemCeiling ==
  /\ IF Raised(FALSE) \ {0} = {} THEN basepri = 0
     ELSE basepri \in Raised(FALSE) \ {0}
          /\ \A h \in Raised(FALSE) \ {0} : basepri <= h
  /\ primask = 1 <=> Raised(TRUE) # {}

(* Bounded priority inversion: of the actors less urgent than a task, at   *)
(* most one is inside a closure whose ceiling keeps that task waiting.     *)
Blocks(a, t) ==
  /\ ExecPriority[t] < ExecPriority[a]
  /\ \E r \in Resources :
       /\ Holds(a, r)
       /\ Ceiling[r] # 0
       /\ cortex_logical2hw(Ceiling[r]) <= ExecPriority[t]

SingleBlocker ==
  \A t \in Tasks, a, b \in Actors : Blocks(a, t) /\ Blocks(b, t) => a = b

(* A handler is entered only when nobody is inside a closure on a resource *)
(* it uses: once started it never finds a resource taken, which is why     *)
(* `lock` needs no wait loop (README.md:118 "Deadlock-free execution").    *)
StartsWithResourcesFree ==
  [][\A t \in Tasks : pc[t] = "off" /\ pc'[t] # "off" =>
       \A r \in Uses[t], a \in Actors : ~ Holds(a, r)]_vars

(* The most urgent task is served however often the others are pended: no  *)
(* critical section and no other handler keeps it waiting forever.         *)
MostUrgent(t) ==
  \A u \in Tasks \ {t} : ExecPriority[t] < ExecPriority[u]

MostUrgentServed ==
  \A t \in Tasks : MostUrgent(t) => (t \in pending ~> t \notin pending)

(* When interrupts stop arriving, every pending task is served: no mask of *)
(* a finished closure or handler stays behind to block it.                 *)
ServedOnceQuiet ==
  <>[][\A t \in Tasks : ~ Pend(t)]_vars =>
    \A t \in Tasks : t \in pending ~> t \notin pending

=============================================================================
