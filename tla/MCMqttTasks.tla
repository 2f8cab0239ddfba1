------------------------------ MODULE MCMqttTasks ------------------------------
(***************************************************************************)
(* Instances of MqttTasks: control blocks for a task that ends and the one *)
(* after it, and addresses for the communicators left behind, too.         *)
(***************************************************************************)
EXTENDS MqttTasks

CONSTANTS t1, t2, t3, c1, c2, c3

MCTasks == {t1, t2, t3}
MCComms == {c1, c2, c3}
AnyFailure == {"create", "task"}
NoFailures == {}
=============================================================================
