---------------------------- MODULE MCAttachment ----------------------------
(* Three submissions: two files, a name that is refused, and no attachment.*)
EXTENDS Attachment, TLC

CONSTANTS u1, u2, u3

Sent == (u1 :> <<"log", "patch">>) @@ (u2 :> <<"../patch">>) @@ (u3 :> <<>>)
=============================================================================
