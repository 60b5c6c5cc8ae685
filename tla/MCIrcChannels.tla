--------------------------- MODULE MCIrcChannels ---------------------------
(* One channel; the option "autojoin" joins it.  *)
EXTENDS IrcChannels, TLC

AllModes == {"no", "now", "later"}
=============================================================================
