------------------------------ MODULE PageQueries ------------------------------
(* What a Live page shows of the kernel and what it lets the operator do:
   useData of shared/data.ts, polling the status, and RuntimeProvider, which
   binds the page to one kernel and enables its controls.

   Every run of useData's effect is a generation: its polls follow each other,
   the next one armed when the last is over, and answers of an older
   generation are dropped.  The page binds to the first kernel it observes, or
   to another one by the operator's choice.  A kernel may be replaced between
   two observations, the status may fail, answers may be old when they come.

   Of time there is only whether the page takes its observation for fresh (no
   more than ten seconds old by its clock): it may lapse at any moment. *)
EXTENDS Integers, BrowserTab

CONSTANTS
    MaxGenerations,  \* bound: refreshes of one load of the page
    MaxKernels       \* bound: replacements of a kernel

ASSUME QueriesAssumption == MaxGenerations \in Nat /\ MaxKernels \in Nat

Generations == 0..MaxGenerations
Kernels     == Instances \X (0..MaxKernels)

VARIABLES
    kernel,      \* how often the kernel of each instance was replaced
    \* the effects of useData
    generation,  \* the current run of the effect
    poll,        \* the poll of each generation
    asked,       \* the instance it is sent to
    saw,         \* the kernel it is answered by
    \* their state
    data,        \* the kernel shown
    failed,      \* an error is shown
    loading,
    \* RuntimeProvider
    bound,       \* the kernel the page is bound to
    fresh        \* the observation shown is recent by the page's clock

polls   == <<generation, poll, asked, saw>>
shown   == <<data, failed, loading, fresh>>
queries == <<kernel, polls, shown, bound>>

Polls == {"none", "due", "asked", "answered", "over"}

QueriesTypeOK ==
    /\ kernel \in [Instances -> 0..MaxKernels]
    /\ generation \in Generations
    /\ poll \in [Generations -> Polls]
    /\ asked \in [Generations -> Instances \cup {None}]
    /\ saw \in [Generations -> Kernels \cup {None}]
    /\ data \in Kernels \cup {None} /\ bound \in Kernels \cup {None}
    /\ failed \in BOOLEAN /\ loading \in BOOLEAN /\ fresh \in BOOLEAN

(* The polls of a page whose effect has run for the first time. *)
FirstPoll == [g \in Generations |-> IF g = 0 THEN "due" ELSE "none"]
Nothing   == [g \in Generations |-> None]

InitQueries ==
    /\ kernel = [i \in Instances |-> 0]
    /\ generation = 0 /\ poll = FirstPoll /\ asked = Nothing /\ saw = Nothing
    /\ data = None /\ failed = FALSE /\ loading = TRUE /\ fresh = FALSE
    /\ bound = None

(* The page is loaded again. *)
ReloadQueries ==
    /\ generation' = 0 /\ poll' = FirstPoll /\ asked' = Nothing /\ saw' = Nothing
    /\ data' = None /\ failed' = FALSE /\ loading' = TRUE /\ fresh' = FALSE
    /\ bound' = None
    /\ UNCHANGED kernel
-----------------------------------------------------------------------------
(* The effect runs again: what was shown is dropped and the old timer cleared;
   the old request is aborted, perhaps when it has been answered already. *)
Refresh ==
    /\ generation < MaxGenerations
    /\ generation' = generation + 1
    /\ poll' = [poll EXCEPT ![generation + 1] = "due",
                            ![generation] = IF @ = "due" THEN "over" ELSE @]
    /\ data' = None /\ failed' = FALSE /\ loading' = TRUE /\ fresh' = FALSE
    /\ UNCHANGED <<kernel, asked, saw, bound>>

(* poll(): at once, and then when its timer fires. *)
Ask(i) ==
    /\ poll[generation] = "due"
    /\ poll' = [poll EXCEPT ![generation] = "asked"]
    /\ asked' = [asked EXCEPT ![generation] = i]
    /\ UNCHANGED <<kernel, generation, saw, shown, bound>>

(* The backend observes the kernel. *)
Observe(g) ==
    /\ poll[g] = "asked"
    /\ poll' = [poll EXCEPT ![g] = "answered"]
    /\ saw' = [saw EXCEPT ![g] = <<asked[g], kernel[asked[g]]>>]
    /\ UNCHANGED <<kernel, generation, asked, shown, bound>>

Active(g) == g = generation

(* The call is over; its timer is armed again whatever came of it. *)
Rearm(g) ==
    /\ poll' = [poll EXCEPT ![g] = IF Active(g) THEN "due" ELSE "over"]
    /\ asked' = [asked EXCEPT ![g] = None] /\ saw' = [saw EXCEPT ![g] = None]
    /\ UNCHANGED <<kernel, generation, bound>>

Arrive(g) ==
    /\ poll[g] = "answered"
    /\ Rearm(g)
    /\ IF Active(g)
       THEN data' = saw[g] /\ failed' = FALSE /\ loading' = FALSE /\ fresh' \in BOOLEAN
       ELSE UNCHANGED shown

(* The kernel cannot be reached, the session fails, fifteen seconds are over,
   the request was aborted: what was shown stays beside the error. *)
Fail(g) ==
    /\ poll[g] \in {"asked", "answered"}
    /\ Rearm(g)
    /\ IF Active(g)
       THEN failed' = TRUE /\ loading' = FALSE /\ UNCHANGED <<data, fresh>>
       ELSE UNCHANGED shown
-----------------------------------------------------------------------------
BindFirst ==
    /\ bound = None /\ data # None /\ ~failed
    /\ bound' = data
    /\ UNCHANGED <<kernel, polls, shown>>

Changed == bound # None /\ data # None /\ bound # data

BindCurrent ==
    /\ Changed
    /\ bound' = data
    /\ UNCHANGED <<kernel, polls, shown>>

(* The page's clock passes the limit. *)
Lapse ==
    /\ fresh /\ fresh' = FALSE
    /\ UNCHANGED <<kernel, polls, data, failed, loading, bound>>

Replace(i) ==
    /\ kernel[i] < MaxKernels
    /\ kernel' = [kernel EXCEPT ![i] = @ + 1]
    /\ UNCHANGED <<polls, shown, bound>>

CanControl(pending) ==
    bound # None /\ ~failed /\ ~Changed /\ ~loading /\ ~pending /\ fresh
-----------------------------------------------------------------------------
(* Whatever an answer was, a poll of the current generation is due or on its
   way: the page never stops observing. *)
PollingGoesOn == poll[generation] \in {"due", "asked", "answered"}

(* What the page shows never goes back to a kernel that it, or an observation
   before, has seen replaced: the late answer of an older generation does not
   come back. *)
NeverGoesBack ==
    data # None /\ data' # None /\ data'[1] = data[1] => data'[2] >= data[2]
=============================================================================
