-------------------------- MODULE MCToolLifecycle --------------------------
(* Instances of ToolLifecycle for TLC. *)
EXTENDS ToolLifecycle

FirstDrone == <<"video_stage">>
SecondDrone == <<"video_stage", "video_recorder">>
Downloads == <<"academy_download">>
WholeAcademy == <<"academy_download", "academy", "academy_upload">>
=============================================================================
