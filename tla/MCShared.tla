------------------------------ MODULE MCShared ------------------------------
(* Three tabs that open one after another, the last one on a topic of its  *)
(* own, and may be closed or lost.                                         *)
EXTENDS SharedClient

CONSTANTS t1, t2

MCTopics == {t1, t2}
MCMounts == <<{t1}, {t1}, {t2}>>
\* The pages of the first two tabs have no cursor.
MCPages == <<NoCursor, NoCursor, 0>>
=============================================================================
