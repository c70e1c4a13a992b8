-------------------------- MODULE MCSourceControl --------------------------
(* Instances of SourceControl.  A remote session interleaves its one worker    *)
(* with everything the user does: one change there, and the write that was     *)
(* asked for, are enough for a commit to be left and returned to.              *)
EXTENDS SourceControl

MCModes == {"local", "remote", "rootless"}
MCMaxWork == [m \in MCModes |-> 1]
=============================================================================
