------------------------------ MODULE MCAccess ------------------------------
EXTENDS Access

MCHome == [a \in Agents |-> CHOOSE u \in Urls : TRUE]
=============================================================================
