------------------------------ MODULE MCGuests ------------------------------
EXTENDS Guests
CONSTANTS ada, curry, base, gravy, fish
=============================================================================
