---------------------------- MODULE SceneReports ----------------------------
(***************************************************************************)
(* What a viewer tells the rest of the page through onLoadStateChange: the *)
(* frame it works on, and how far it has come with it. A frame is taken up *)
(* as loading, or refused at once; it is reported ready or failed once;    *)
(* and nothing more is heard of a frame that was given up for another.     *)
(***************************************************************************)
CONSTANTS Frames, NoFrame

VARIABLE scene

Init == scene = [frame |-> NoFrame, state |-> "none"]

TakeUp(frame) == \E state \in {"loading", "error"} : scene' = [frame |-> frame, state |-> state]
GiveUp == scene' = [frame |-> NoFrame, state |-> "none"]
Answer ==
    /\ scene.state = "loading"
    /\ \E state \in {"ready", "error"} : scene' = [scene EXCEPT !.state = state]

Next == (\E frame \in Frames : TakeUp(frame)) \/ GiveUp \/ Answer

Spec == Init /\ [][Next]_scene

=============================================================================
