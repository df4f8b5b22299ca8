------------------------------ MODULE MCListing ------------------------------
(* Two APIs, one of which may be forbidden, and a single permit.             *)
EXTENDS Listing, TLC
=============================================================================
