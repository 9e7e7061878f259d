--------------------------- MODULE DisplayHistory ---------------------------
(***************************************************************************)
(* The undo history of useDisplayState, as functions of what its refs and  *)
(* stacks hold. A snapshot is what undo restores: the look that survives   *)
(* another dataset (representation, style, opacity, colour map, legend),   *)
(* the view that does not (colour array and range, camera, table and slice *)
(* coordinates, opacity points), and the timestep. The fourteen fields are *)
(* known by these three, because that is what reset() and the playback     *)
(* tell apart; cloning and comparing by value are then equality.           *)
(***************************************************************************)
EXTENDS Integers, Sequences

CONSTANTS
    Limit           \* DISPLAY_HISTORY_LIMIT

ASSUME LimitAssumption == Limit \in Nat \ {0}

NoStep == -1        \* automaticTimestepRef holds nothing
FirstStep == 0

\* Both stacks, lastRecordedSnapshotRef and automaticTimestepRef.
EmptyHistory(snapshot) ==
    [past |-> <<>>, future |-> <<>>, recorded |-> snapshot, automatic |-> NoStep]

LastOf(stack) == stack[Len(stack)]
ButLast(stack) == SubSeq(stack, 1, Len(stack) - 1)

AppendBounded(stack, snapshot) ==
    IF Len(stack) < Limit THEN Append(stack, snapshot) ELSE Append(Tail(stack), snapshot)

\* A change that is on the screen becomes one entry, and ends what could be redone.
Pushed(h, snapshot) ==
    [h EXCEPT !.past = AppendBounded(@, snapshot), !.future = <<>>]

\* The recording effect of a rendered snapshot. What the playback did to the
\* timestep is no edit; anything else that changed with it is.
Observed(h, snapshot) ==
    IF h.automatic = snapshot.step THEN [h.recorded EXCEPT !.step = snapshot.step] ELSE h.recorded

RecordForgetting(h, snapshot) ==
    LET seen == [h EXCEPT !.automatic = NoStep] IN
    IF Observed(h, snapshot) = snapshot THEN seen ELSE Pushed(seen, Observed(h, snapshot))
RecordCurrent(h, snapshot) ==
    LET seen == [h EXCEPT !.recorded = snapshot, !.automatic = NoStep] IN
    IF Observed(h, snapshot) = snapshot THEN seen ELSE Pushed(seen, snapshot)
Record(h, snapshot) ==
    LET seen == [h EXCEPT !.recorded = snapshot, !.automatic = NoStep] IN
    IF Observed(h, snapshot) = snapshot THEN seen ELSE Pushed(seen, Observed(h, snapshot))

\* applyWithoutRecording: what is about to be shown counts as recorded already.
Applied(h, target) == [h EXCEPT !.recorded = target, !.automatic = NoStep]

CanUndo(h) == h.past # <<>>
CanRedo(h) == h.future # <<>>

Undone(h, current) ==
    Applied([h EXCEPT !.past = ButLast(@), !.future = AppendBounded(@, current)], LastOf(h.past))

Redone(h, current) ==
    Applied([h EXCEPT !.past = AppendBounded(@, current), !.future = ButLast(@)], LastOf(h.future))

Restored(h, current, target) ==
    Applied(IF current = target THEN h ELSE Pushed(h, current), target)

\* reset(): the next dataset starts with what its own display will be.
ResetSnapshot(snapshot, blank) == [snapshot EXCEPT !.view = blank, !.step = FirstStep]

ResetHistory(h, snapshot) ==
    Applied([h EXCEPT !.past = <<>>, !.future = <<>>], snapshot)

=============================================================================
