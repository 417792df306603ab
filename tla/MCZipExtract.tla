---------------------------- MODULE MCZipExtract ----------------------------
(* Two calls with any packages of up to four files.                        *)
EXTENDS ZipExtract

MCEndpoints == <<"teams.json", "runs.json">>

=============================================================================
