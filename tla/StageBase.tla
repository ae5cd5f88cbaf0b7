----------------------------- MODULE StageBase ------------------------------
(* What the stages of the pipeline have in common.  A stage object is        *)
(* configured, executes forward on an input, learns the size of what it      *)
(* wrote (at once, or once the stream has synchronised), and the archive is  *)
(* decoded later: by the same object, with the fields it cached, or by a new *)
(* object built from the header the first one serialised.  The object then   *)
(* serves the next call, and the output buffer still holds the last archive. *)
(*                                                                           *)
(* An archive is a function from where a section starts (a byte offset, or   *)
(* the name of an output port) to the numbers it holds; a decoder that looks *)
(* where nothing was written finds an empty section.                         *)
EXTENDS Integers, Sequences, FiniteSets, FiniteSetsExt, SequencesExt, TLC

CONSTANTS StageConfigs,  \* records [kind, size, eb, rel, data, ...]: stage, sizeof(T), absolute and
                         \* point-wise relative error it may make, inputs
          StageInputs,   \* name -> the inputs execute() is given
          StageCalls     \* calls on one stage object

VARIABLES stConf,        \* what the setters configured
          stMem,         \* fields of the object that survive a call
          stCall, stIn,  \* number of calls, input of the last one
          stPhase,       \* "idle", "executed", "synced", "decoded", "refused"
          stArchive,     \* output buffers
          stActual,      \* bytes the stage reports to have written
          stEstimate,    \* estimateOutputSizes() the buffers were allocated with
          stOut,         \* what the inverse wrote
          stOutEstimate  \* elements the inverse's buffer has room for

stVars == <<stConf, stMem, stCall, stIn, stPhase, stArchive, stActual, stEstimate,
            stOut, stOutEstimate>>

DivUp(a, b) == (a + b - 1) \div b
AlignTo(n, a) == a * DivUp(n, a)
Align4(n) == AlignTo(n, 4)
AbsOf(x) == IF x < 0 THEN -x ELSE x
Indices(n) == [i \in 1..n |-> i]
SumSeq(s) == FoldLeft(+, 0, s)
\* Exclusive running sums of s.
ExclusiveSums(s) ==
    FoldLeft(LAMBDA acc, x : Append(acc, acc[Len(acc)] + x), <<0>>, s)
Section(archive, at) == IF at \in DOMAIN archive THEN archive[at] ELSE <<>>
\* The c-th of the pieces of `len` elements that x is cut into, from 1.
PieceOf(x, len, c) == SubSeq(x, (c - 1) * len + 1, Min({c * len, Len(x)}))
\* w-bit two's complement.
Unsigned(x, w) == x % 2^w
Signed(x, w) == LET u == x % 2^w IN IF u >= 2^(w - 1) THEN u - 2^w ELSE u

StageInit ==
    /\ stConf \in StageConfigs
    /\ stMem = [n |-> 0]
    /\ stCall = 0
    /\ stIn = <<>>
    /\ stPhase = "idle"
    /\ stArchive = <<>>
    /\ stActual = 0
    /\ stEstimate = 0
    /\ stOut = <<>>
    /\ stOutEstimate = 0

StageReady(kind) ==
    /\ stConf.kind = kind
    /\ stCall < StageCalls
    /\ stPhase \in {"idle", "decoded", "refused"}

\* The call wrote `archive`; its size is not known before the stream has
\* synchronised.
ExecutedAs(data, mem, archive, estimate) ==
    /\ stCall' = stCall + 1
    /\ stIn' = data
    /\ stMem' = mem
    /\ stArchive' = archive @@ stArchive
    /\ stEstimate' = estimate
    /\ stPhase' = "executed"
    /\ UNCHANGED <<stConf, stActual, stOut, stOutEstimate>>

\* The size is known when execute() returns.
ExecutedSized(data, mem, archive, estimate, actual) ==
    /\ stCall' = stCall + 1
    /\ stIn' = data
    /\ stMem' = mem
    /\ stArchive' = archive @@ stArchive
    /\ stEstimate' = estimate
    /\ stActual' = actual
    /\ stPhase' = "synced"
    /\ UNCHANGED <<stConf, stOut, stOutEstimate>>

\* execute() throws.
RefusedLeaving(data, mem) ==
    /\ stCall' = stCall + 1
    /\ stIn' = data
    /\ stMem' = mem
    /\ stPhase' = "refused"
    /\ UNCHANGED <<stConf, stArchive, stActual, stEstimate, stOut, stOutEstimate>>
Refused(data) == RefusedLeaving(data, stMem)

Awaited(kind) == stConf.kind = kind /\ stPhase = "executed"
SizedAs(kind, archive, actual) ==
    /\ Awaited(kind)
    /\ stActual' = actual
    /\ stArchive' = archive @@ stArchive
    /\ stPhase' = "synced"
    /\ UNCHANGED <<stConf, stMem, stCall, stIn, stEstimate, stOut, stOutEstimate>>

\* postStreamSync() also changes the object.
SizedLeaving(kind, mem, actual) ==
    /\ Awaited(kind)
    /\ stMem' = mem
    /\ stActual' = actual
    /\ stPhase' = "synced"
    /\ UNCHANGED <<stConf, stCall, stIn, stArchive, stEstimate, stOut, stOutEstimate>>

\* What the call learns after the synchronisation makes it throw.
SyncRefusedLeaving(kind, mem) ==
    /\ Awaited(kind)
    /\ stMem' = mem
    /\ stPhase' = "refused"
    /\ UNCHANGED <<stConf, stCall, stIn, stArchive, stActual, stEstimate, stOut, stOutEstimate>>
SyncRefused(kind) == SyncRefusedLeaving(kind, stMem)

CanDecode(kind) == stConf.kind = kind /\ stPhase = "synced"

DecodedAs(out, estimate) ==
    /\ stOut' = out
    /\ stOutEstimate' = estimate
    /\ stPhase' = "decoded"
    /\ UNCHANGED <<stConf, stMem, stCall, stIn, stArchive, stActual, stEstimate>>

-----------------------------------------------------------------------------
(* What a stage promises.  The inverse restores the input of its own call    *)
(* within the stage's bound (exactly, when it is lossless), whether the      *)
(* object that encoded decodes or one rebuilt from the header, and whatever  *)
(* an earlier call left in the object and in the buffers.                    *)
StageLossless ==
    stPhase = "decoded" =>
        /\ DOMAIN stOut = DOMAIN stIn
        /\ \A i \in DOMAIN stIn : AbsOf(stOut[i] - stIn[i]) <= stConf.eb + stConf.rel * AbsOf(stIn[i])

(* Neither direction writes past the buffer that was allocated from the      *)
(* stage's own estimate.                                                     *)
StageFits ==
    /\ stPhase \in {"synced", "decoded"} => stActual <= stEstimate
    /\ stPhase = "decoded" => Len(stOut) <= stOutEstimate
=============================================================================
