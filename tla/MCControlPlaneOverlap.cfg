\* Starts and stops that overlap, against control-plane.md.
SPECIFICATION Spec
CONSTANTS
    Daemons = {d1, d2, d3}
    Callers = {c1}
PROPERTY OnlyLeftoversRemoved
