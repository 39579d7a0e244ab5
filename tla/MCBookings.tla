----------------------------- MODULE MCBookings -----------------------------
EXTENDS Bookings, TLC

\* Leads, addresses and requests are interchangeable.
Symmetry == Permutations(Leads) \union Permutations(Addresses) \union Permutations(Requests)

=============================================================================
