---------------------------- MODULE MCFifoGateway ----------------------------
EXTENDS FifoGateway

Run(program, isSim, known, n) ==
  [program |-> program, isSim |-> isSim, known |-> known, sockets |-> n]

\* Both programs in simulation, with as many sockets as it takes and with a
\* number that is cut to one; and the starts that fail or open nothing.
MCArguments == {Run("Bin", TRUE, TRUE, 2), Run("Fix", TRUE, TRUE, 9),
                Run("Fix", TRUE, TRUE, 3), Run("Bin", FALSE, TRUE, 3),
                Run("Fix", FALSE, TRUE, 4), Run("Bin", FALSE, FALSE, 1)}

MCMaxConns == [s \in EngineSockets |-> IF s = 0 THEN 2 ELSE 1]
MCMaxMessages == [s \in EngineSockets |-> IF s = 0 THEN 2 ELSE 1]
=============================================================================
