---------------------- MODULE MCProgramSubmissionDialog ----------------------
(* Constant values for model checking ProgramSubmissionDialog.             *)
EXTENDS ProgramSubmissionDialog

MCNames == {"Custom program"}

\* The ticks of two rows of presets, so that rows come to share them.
MCTicks == {3, 4}

=============================================================================
