---------------------------- MODULE BaseTransport ----------------------------
(***************************************************************************)
(* The decisions both transports share (src/transport/base.rs): which      *)
(* events an endpoint reads and which it encrypts, as a function of its    *)
(* EncryptionMode.                                                         *)
(***************************************************************************)

EncryptionModes == {"Optional", "Required", "Disabled"}

\* The caller's wish: Some(true), Some(false), or None, no opinion.
Wishes == {"encrypt", "plain", "none"}

\* The wish made of a session's is_encrypted flag, Some(is_encrypted).
Wish(is_encrypted) == IF is_encrypted THEN "encrypt" ELSE "plain"

\* BaseTransport::should_encrypt.  The announcement kinds are public whatever
\* the mode; an MCP message follows the mode, and the caller's wish only in
\* Optional mode, where no opinion means encryption.
ShouldEncrypt(mode, announcement, wish) ==
  /\ ~announcement
  /\ \/ mode = "Required"
     \/ mode = "Optional" /\ wish # "plain"
==============================================================================
