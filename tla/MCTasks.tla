------------------------------ MODULE MCTasks ------------------------------
EXTENDS Tasks

(* every combination                                                        *)
AllBuilds == [clone_copies : BOOLEAN, frame_survives : BOOLEAN]
=============================================================================
