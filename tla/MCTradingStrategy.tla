-------------------------- MODULE MCTradingStrategy --------------------------
EXTENDS TradingStrategy

Update(id, buy, sell) == [securityId |-> id, buy |-> buy, sell |-> sell]

\* An order that both sides want, no order, and a security that is not among
\* those configured.
SomeUpdates == {Update(666666, TRUE, TRUE), Update(777777, FALSE, FALSE),
                Update(123456, TRUE, FALSE)}
=============================================================================
