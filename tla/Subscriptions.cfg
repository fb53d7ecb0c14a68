SPECIFICATION Spec
CONSTANTS
    Sockets = {s1, s2}
    Public  = {trade}
    Private = {orders}
    Users   = {u1, u2}
    NoUser  = none
    Publishers = {engine, market}
    MaxIds  = 3
INVARIANTS
    MapsAgree
    SubscribersConnected
SYMMETRY Symmetry
