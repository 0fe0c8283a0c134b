--------------------------- MODULE MCCallFailover ---------------------------
(* Small lessons for TLC: a teacher and a student.                         *)
EXTENDS CallFailover

CONSTANTS teacher, student

Two == {teacher, student}
Teachers == {teacher}
Students == {student}
Nobody == {}
Forcing == {"livekit_only", "jaas_only"}
JustAuto == {"auto"}

=============================================================================
