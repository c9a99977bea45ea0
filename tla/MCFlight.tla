------------------------------ MODULE MCFlight ------------------------------
\* Flight on its own, with what FlightPrograms gives it.
EXTENDS Flight, FlightPrograms
=============================================================================
