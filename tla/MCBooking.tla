------------------------------ MODULE MCBooking ------------------------------
EXTENDS Booking, TLC
MCStarts == {1, 2}
MCQuoteTech == [q \in Quotes |-> CHOOSE t \in Techs : TRUE]
MCQuoteClient == [q \in Quotes |-> CHOOSE c \in Clients : TRUE]
Symmetry == Permutations(Requests)
PairSymmetry == Permutations(Appts) \union Permutations(Requests)
=============================================================================
