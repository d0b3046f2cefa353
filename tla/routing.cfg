SPECIFICATION FairRouteSpec
CONSTANT Nodes = {1, 2, 3}
PROPERTIES NeverBack Served
