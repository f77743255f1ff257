------------------------------ MODULE MCProgram ------------------------------
(***************************************************************************)
(* The life of the process while one update goes through it.               *)
(***************************************************************************)
EXTENDS MCSynchronizer, Program

OneStatus == {Alarm("Bypassed", NoWake)}

OneRecord == {<<MCTopic, Config(Bypassed, plain)>>, <<MCCommandTopic, Command("acknowledge")>>}

=============================================================================
