----------------------------- MODULE MCSupervisor -----------------------------
\* One worker that enters two scopes in a generation, and limits as tight as
\* the assumptions allow.
EXTENDS Supervisor
CONSTANT w1
MCWorkers == {w1}
=============================================================================
