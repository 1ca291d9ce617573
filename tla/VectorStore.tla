---------------------------- MODULE VectorStore -----------------------------
(***************************************************************************)
(* Membox's EmbeddingStore: one file of vectors per sample.  Each ranking  *)
(* loads the file, has the vectors it misses computed, and writes          *)
(* everything it has back if something was missing.  Nothing is locked:    *)
(* rankings of several threads and processes interleave, a write truncates *)
(* the file first, and of two writes that overlap a mixture may stay.      *)
(* What cannot be parsed is read as an empty store.                        *)
(*                                                                         *)
(* A vector is the text it was computed from, or Zeros after a call that   *)
(* failed.  The vector of a question has the first 80 characters of the    *)
(* question as its key, that of a box the number of the box.               *)
(***************************************************************************)
EXTENDS Naturals, FiniteSets, Functions

CONSTANTS Askers,   \* the threads that rank
          Texts,    \* what they rank boxes for
          KeyOf,    \* the key of each text
          Boxes,    \* the boxes of the sample, their own keys
          Zeros, NoText

ASSUME StoreAssumption == /\ DOMAIN KeyOf = Texts
                          /\ {Zeros, NoText} \cap (Texts \cup Boxes) = {}

VARIABLES vectors,   \* what the file holds, as it would be read now
          step,      \* what each thread is at
          store,     \* what each thread holds of it
          asked,     \* the text each ranking is for, NoText for a thread that does not rank
          overlap,   \* whether two of the present writes have overlapped
          disturbed, \* history: whether a write failed or rankings overlapped, and
                     \* one of the rankings of then is not over
          computed,  \* history: the keys computed, or in the file, since the last time
          again      \* history: those of them that were computed again

storeVars == <<vectors, step, store, asked, overlap, disturbed, computed, again>>

Nothing == [k \in {} |-> Zeros]

StoreInit == /\ vectors = Nothing
             /\ step = [a \in Askers |-> "idle"]
             /\ store = [a \in Askers |-> Nothing]
             /\ asked = [a \in Askers |-> NoText]
             /\ overlap = FALSE
             /\ computed = {} /\ again = {} /\ disturbed = FALSE

\* The keys a ranking looks up, each with the text its vector is computed from.
Wanted(t) == [k \in {KeyOf[t]} \cup Boxes |-> IF k \in Boxes THEN k ELSE t]

Missing(t) == DOMAIN Wanted(t) \ DOMAIN vectors

\* The keys in failed are those whose embedding call fails.
Filled(t, failed) ==
    [k \in DOMAIN vectors \cup DOMAIN Wanted(t) |->
        IF k \in DOMAIN vectors THEN vectors[k]
                                ELSE IF k \in failed THEN Zeros ELSE Wanted(t)[k]]

\* Between its load and the end of its write.
Flushing(a) == step[a] \in {"flush", "write"}

\* The histories after keys have been computed; step' and vectors' are known. Once
\* what was disturbed is over, whatever the file then holds counts as computed.
Note(upset, keys) ==
    /\ disturbed' = /\ disturbed \/ upset
                    /\ \E b \in Askers : step'[b] \in {"flush", "write", "failed"}
    /\ computed' = IF disturbed' THEN {}
                   ELSE IF disturbed \/ upset THEN DOMAIN vectors' ELSE computed \cup keys
    /\ again' = IF disturbed \/ upset THEN {} ELSE again \cup (computed \cap keys)

\* Fault: the store is not marked as changed.
RankUnmarked(a, t) ==
    /\ step[a] = "idle"
    /\ \E failed \in SUBSET Missing(t) : store' = [store EXCEPT ![a] = Filled(t, failed)]
    /\ asked' = [asked EXCEPT ![a] = t]
    /\ step' = [step EXCEPT ![a] = "ranked"]
    /\ UNCHANGED <<vectors, overlap>>
    /\ Note(FALSE, Missing(t))

\* Load and get_vector for the text and each box.
Rank(a, t) ==
    /\ step[a] = "idle"
    /\ \E failed \in SUBSET Missing(t) : store' = [store EXCEPT ![a] = Filled(t, failed)]
    /\ asked' = [asked EXCEPT ![a] = t]
    /\ step' = [step EXCEPT ![a] = IF Missing(t) = {} THEN "ranked" ELSE "flush"]
    /\ UNCHANGED <<vectors, overlap>>
    /\ Note(Missing(t) # {} /\ \E b \in Askers : Flushing(b), Missing(t))

\* flush opens the file, which empties it.
Truncate(a) == /\ step[a] = "flush"
               /\ step' = [step EXCEPT ![a] = "write"]
               /\ vectors' = Nothing
               /\ overlap' = (overlap \/ \E b \in Askers : step[b] = "write")
               /\ UNCHANGED <<store, asked, disturbed, computed, again>>

\* Fault: only what this ranking looked up is written back.
FinishWriteOwn(a) ==
    /\ step[a] = "write"
    /\ step' = [step EXCEPT ![a] = "ranked"]
    /\ vectors' \in {Restrict(store[a], DOMAIN Wanted(asked[a]))}
                     \cup (IF overlap THEN {Nothing} ELSE {})
    /\ overlap' = (overlap /\ \E b \in Askers \ {a} : step[b] = "write")
    /\ Note(FALSE, {})
    /\ UNCHANGED <<store, asked>>

FinishWrite(a) == /\ step[a] = "write"
                  /\ step' = [step EXCEPT ![a] = "ranked"]
                  /\ vectors' \in {store[a]} \cup (IF overlap THEN {Nothing} ELSE {})
                  /\ overlap' = (overlap /\ \E b \in Askers \ {a} : step[b] = "write")
                  /\ Note(FALSE, {})
                  /\ UNCHANGED <<store, asked>>

\* The file cannot be opened, or a write to it fails: the ranking raises.
WriteFails(a) == /\ Flushing(a)
                 /\ vectors' = IF step[a] = "write" THEN Nothing ELSE vectors
                 /\ step' = [step EXCEPT ![a] = "failed"]
                 /\ overlap' = (overlap /\ \E b \in Askers \ {a} : step[b] = "write")
                 /\ Note(TRUE, {})
                 /\ UNCHANGED <<store, asked>>

\* The ranking is back with its caller, which lets go of its store.
Return(a) == /\ step[a] \in {"ranked", "failed"}
             /\ step' = [step EXCEPT ![a] = "idle"]
             /\ store' = [store EXCEPT ![a] = Nothing]
             /\ asked' = [asked EXCEPT ![a] = NoText]
             /\ UNCHANGED <<vectors, overlap>>
             /\ Note(FALSE, {})

\* A thread that is killed in the middle of a ranking.
Vanish(a) == /\ step' = [step EXCEPT ![a] = "idle"]
             /\ store' = [store EXCEPT ![a] = Nothing]
             /\ vectors' = IF step[a] = "write" THEN Nothing ELSE vectors
             /\ asked' = [asked EXCEPT ![a] = NoText]
             /\ overlap' = (overlap /\ \E b \in Askers \ {a} : step[b] = "write")
             /\ Note(Flushing(a), {})

FlushStep(a) == Truncate(a) \/ FinishWrite(a) \/ WriteFails(a)

(* ----------------------------- Properties ------------------------------ *)

StoreTypeOK ==
    LET keys == Range(KeyOf) \cup Boxes
        partial(f) == DOMAIN f \subseteq keys /\ Range(f) \subseteq Texts \cup Boxes \cup {Zeros}
    IN  /\ partial(vectors)
        /\ \A a \in Askers : partial(store[a])
        /\ step \in [Askers -> {"idle", "flush", "write", "ranked", "failed"}]
        /\ asked \in [Askers -> Texts \cup {NoText}]
        /\ again \subseteq computed /\ computed \subseteq keys
        /\ overlap \in BOOLEAN /\ disturbed \in BOOLEAN

\* What overlapping rankings or a failed write destroy is over with them: once each
\* of these rankings is, the file is sound, be it empty, and no vector that it holds
\* or that is computed from then on is ever computed again, until rankings overlap or
\* a write fails anew. One that failed stays zeros for good.
ComputedOnce == again = {}
=============================================================================
