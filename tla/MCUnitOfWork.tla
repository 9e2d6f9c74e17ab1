---------------------------- MODULE MCUnitOfWork ----------------------------
(* UnitOfWork on two sequences and two sources. *)
EXTENDS UnitOfWork, TLC

CONSTANTS log, other, a, b, x, y, g, h

Plain(q, source) ==
  [sequence |-> q, source |-> source, scope |-> NoScope, guard |-> NoGuard, named |-> FALSE]
Scoped(q, source, scope) == [Plain(q, source) EXCEPT !.scope = scope]
Guarded(q, source, guard) == [Plain(q, source) EXCEPT !.guard = guard]
Named(q, source) == [Plain(q, source) EXCEPT !.named = TRUE]

\* Scopes in conflict, guards in conflict within a sequence, the same guard in
\* two sequences, a scope that settles the guards of its source, named tags.
MCEnrolments ==
  {Plain(log, a), Scoped(log, a, x), Scoped(log, a, y), Scoped(other, b, x),
   Guarded(log, a, g), Guarded(other, b, g), Guarded(other, b, h), Named(other, a)}

MCFewEnrolments == {Plain(log, a), Plain(other, b)}
=============================================================================
