------------------------------ MODULE MCProcess ------------------------------
(* Process for TLC: every kind of archive path; settings that are given or *)
(* not, right or wrong, on the command line and in the environment.        *)
EXTENDS Process

(* The two settings that may be invalid are so each by itself, and are not *)
(* both given in one place.                                                *)
Settings == {given \in [address : {Unset, "malformed"}, port : {Unset, 1023, 1024, 65536},
                        archive_path : {Unset, "given"}, auth_password : {Unset}] :
                given.address = Unset \/ given.port = Unset}
=============================================================================
