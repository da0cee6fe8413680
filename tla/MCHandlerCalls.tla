--------------------------- MODULE MCHandlerCalls ---------------------------
(***************************************************************************)
(* A notification and a publication, with calls enough for a few retries.  *)
(***************************************************************************)
EXTENDS HandlerCalls

OneOfEach == {"notification", "publish"}
OneNotification == {"notification"}
=============================================================================
