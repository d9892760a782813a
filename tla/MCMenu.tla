------------------------------- MODULE MCMenu -------------------------------
EXTENDS Menu
CONSTANTS curry, base, gravy, fish
=============================================================================
