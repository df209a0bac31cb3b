---------------------------- MODULE MCConfigFiles ----------------------------
(***************************************************************************)
(* ConfigFiles with two worlds of one group; the other services, whose     *)
(* transaction is the same, follow two texts.                              *)
(***************************************************************************)
EXTENDS ConfigFiles

ConfigInFamily == config # "worlds" => {file', bak'} \subseteq {NoFile, Garbled, Blank, DefaultRules}
==============================================================================
