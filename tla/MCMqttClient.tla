---------------------------- MODULE MCMqttClient ----------------------------
EXTENDS MqttClient, TLC
Symmetry == Permutations(Publishers) \cup Permutations(Messages)
=============================================================================
