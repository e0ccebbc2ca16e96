------------------------------- MODULE MCDomus -------------------------------
(* Domus for TLC: few links, in the combinations of MCWorkloads. *)
EXTENDS Domus

CONSTANTS p, q, r

Load(c, d, n, ps, who, k, s) ==
    [conns |-> c, dials |-> d, queries |-> n, peers |-> ps, dialers |-> who,
     kinds |-> k, stops |-> s]

\* Connections the peers of who make, sends to ps, queries; kinds of callis;
\* whether the domus shuts down.
MCWorkloads ==
    {Load(1, 1, 0, {p, q}, {p}, {"Primary"}, FALSE),
     Load(2, 1, 0, {p}, {p}, {"Primary"}, FALSE),
     Load(1, 1, 0, {p}, {}, {"Primary"}, TRUE),
     Load(2, 0, 0, {p}, {p}, Kinds, TRUE),
     Load(2, 0, 2, {p}, {p}, Kinds, FALSE),
     Load(3, 0, 2, {p}, {p}, {}, FALSE),
     Load(0, 4, 3, {}, {}, {}, FALSE),
     Load(1, 3, 3, {}, {p}, {}, FALSE),
     Load(2, 0, 0, {p, q}, {p, q}, {"Primary"}, FALSE),
     Load(1, 2, 0, {p}, {}, {"Primary"}, FALSE)}
=============================================================================
