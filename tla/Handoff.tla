------------------------------- MODULE Handoff -------------------------------
(***************************************************************************)
(* daemon/handoffstate.hpp: who may claim the pods, who interrupted whom,  *)
(* and what is owed once the other device lets go, as operators on the     *)
(* state of the class.  A decision is computed from the state before it.   *)
(*                                                                         *)
(* A frame is named for what it says: "here" is this box with media or a   *)
(* call, "media", "call" and "none" are the other device's.  A pending     *)
(* claim counts only while it is fresh, so the two are one field.          *)
(***************************************************************************)

OtherFrames == {"none", "media", "call"}
Frames == OtherFrames \cup {"here"}

HandoffStates ==
  [localPlaying : BOOLEAN, claimFresh : BOOLEAN, interrupted : BOOLEAN, lastOther : OtherFrames]

NoHandoff == [localPlaying |-> FALSE, claimFresh |-> FALSE, interrupted |-> FALSE, lastOther |-> "none"]

\* onLocalMedia: what goes to the pods, and the state after it.
MediaWire(h, playing, origin) ==
  IF playing = h.localPlaying \/ origin = "daemon" THEN "none"
  ELSE IF playing THEN "claim" ELSE "release"

OnLocalMedia(h, playing, origin) ==
  [h EXCEPT !.localPlaying = playing,
            !.interrupted = @ /\ MediaWire(h, playing, origin) # "claim"]

NoteClaimSent(h) == [h EXCEPT !.claimFresh = TRUE]

\* Mutant: the flag survives the reclaim.
NoteResumedNot(h) == h

NoteResumed(h) == [h EXCEPT !.interrupted = FALSE]

\* onAudioSource and interruptIfPlaying
Interrupts(h, frame) ==
  /\ h.localPlaying /\ ~h.interrupted
  /\ frame = "call" \/ (frame = "media" /\ ~h.claimFresh /\ h.lastOther = "none")

\* Mutant: a release is heard only while something plays here.
ResumesWhilePlaying(h, frame) == frame = "none" /\ h.interrupted /\ h.localPlaying

Resumes(h, frame) == frame = "none" /\ h.interrupted

\* Mutant: the frame that confirms a claim does not end the other device's session.
OnAudioSourceUnended(h, frame) ==
  IF frame = "here"
  THEN [h EXCEPT !.claimFresh = FALSE, !.interrupted = FALSE]
  ELSE [h EXCEPT !.lastOther = frame, !.interrupted = @ \/ Interrupts(h, frame)]

OnAudioSource(h, frame) ==
  IF frame = "here"
  THEN [h EXCEPT !.claimFresh = FALSE, !.interrupted = FALSE, !.lastOther = "none"]
  ELSE [h EXCEPT !.lastOther = frame, !.interrupted = @ \/ Interrupts(h, frame)]

=============================================================================
